---- MODULE Spec2Model ----
(***************************************************************************)
(* A model of the sharded concurrent hash map (CHashMap, src/src/lib.rs)   *)
(* and of the sharded LRU cache (LruCache, src/src/lru/mod.rs) with its    *)
(* indexed shard (IndexedShard, src/src/lru/shard.rs).                     *)
(*                                                                         *)
(* Tasks are processes.  A task's step is the code between two suspension  *)
(* points (the .await of a lock acquisition); where a claim is about the   *)
(* lock state inside such a segment, the segment is split further.         *)
(* The atomic usize counters are modelled as mathematical integers: a      *)
(* negative value stands for the wrapped value 2^64 + n.                   *)
(***************************************************************************)
EXTENDS Integers, Sequences, FiniteSets, TLC

\* ------------------------------------------------------------ bounds
\* num_shards of the containers the tasks work on, and of the cache the
\* eviction walk is studied on (it needs three shards to hold three locks).
NumShards == 2
WalkShards == 3
NumKeys == 4
MaxVal == 2
NumProcs == 2
MaxBatch == 3
MaxClock == 1
MaxCached == 3

Keys == 1 .. NumKeys
AllProcs == 1 .. NumProcs
Values == 1 .. MaxVal
MaxCount == 3
MaxDrift == 1
\* The bulk eviction is studied on caches of up to FillKeys entries, with
\* counts up to FillCount.
FillKeys == 8
FillCount == 4

\* The absent value (Option::None) of the operations that return Option<T>.
None == 0

\* ------------------------------------------------------------ state
VARIABLES
    target,      \* which container and workload the tasks run: "map", "lru", "walk", ...
    map_shards,  \* CHashMap.shards: shard index -> set of entries
    map_size,    \* CHashMap.size
    map_lock,    \* the RwLock of each CHashMap shard
    lru_shards,  \* LruCache.shards[i].0: shard index -> IndexedShard
    lru_cached,  \* LruCache.shards[i].1: the cached per-shard length
    lru_size,    \* LruCache.size
    lru_lock,    \* the RwLock of each LruCache shard
    clock,       \* the monotonic clock read by quanta::Instant::now()
    pc,          \* each task's position
    loc          \* each task's arguments, locals and, once done, its result

vars == <<target, map_shards, map_size, map_lock, lru_shards, lru_cached, lru_size,
          lru_lock, clock, pc, loc>>

mapVars == <<map_shards, map_size, map_lock>>

lruVars == <<lru_shards, lru_cached, lru_size, lru_lock, clock>>

\* shards.len(): the num_shards the container was constructed with.
ShardCount == IF target \in {"walk", "fill", "sample"} THEN WalkShards ELSE NumShards

Shards == 0 .. (ShardCount - 1)

\* The keys and values the tasks of a workload pass in.  Keys 1 and 2 collide;
\* the keys from 2 on fall into distinct shards.
InKeys ==
    IF target = "sample" THEN 1 .. NumKeys
    ELSE IF target = "walk" THEN 2 .. NumKeys
    ELSE IF target \in {"race", "stamp", "map_dup", "lru_dup"} THEN 2 .. (NumKeys - 1)
    ELSE 1 .. (NumKeys - 1)

InValues ==
    IF target \in {"walk", "race", "batch", "stamp", "map_cancel", "lru_cancel", "sample"}
    THEN {1}
    ELSE Values

\* The tasks that make calls: the "lru", "walk" and round-trip workloads are one
\* caller making one call after another.  The other tasks are "off".
Procs ==
    1 .. (IF target \in {"lru", "walk", "map_trip", "lru_trip", "fill", "map_cancel",
                         "lru_cancel", "sample"}
          THEN 1 ELSE NumProcs)

\* The counts passed to evict_many and evict_many_fast.
InCounts ==
    IF target = "race" THEN {MaxCount - 1}
    ELSE IF target = "fill" THEN 0 .. FillCount
    ELSE 0 .. MaxCount

\* Inserts are made as long as they leave the cached length of the shard at most this.
CachedCap == IF target \in {"race", "sample"} THEN MaxCached - 1 ELSE MaxCached

\* ------------------------------------------------------------ hashing
\* The hasher is external; any stable 64-bit hash will do.  This one makes
\* keys 1 and 2 collide on the full hash, and spreads the others.
HashOf(key) == IF key <= 2 THEN 0 ELSE key - 2

\* hash_and_shard returns (hash, hash % shards.len()).
ShardOfHash(hash) == hash % ShardCount

HashAndShard(key) == <<HashOf(key), ShardOfHash(HashOf(key))>>

\* ------------------------------------------------------------ sequences
RECURSIVE SetSum(_, _)
SetSum(f, S) ==
    IF S = {} THEN 0
    ELSE LET x == CHOOSE y \in S : TRUE IN f[x] + SetSum(f, S \ {x})

Front(s) == SubSeq(s, 1, Len(s) - 1)

Last(s) == s[Len(s)]

Range(s) == {s[i] : i \in 1 .. Len(s)}

\* All orderings of a finite set, as sequences (the outcomes of a shuffle).
Orderings(S) ==
    {s \in [1 .. Cardinality(S) -> S] : \A i, j \in 1 .. Cardinality(S) : i # j => s[i] # s[j]}

\* All permutations of a sequence.
SeqPerms(s) ==
    {[i \in 1 .. Len(s) |-> s[f[i]]] : f \in Orderings(1 .. Len(s))}

\* ------------------------------------------------------------ tokio RwLock
\* w is the task holding the write guard (0: none), r the tasks holding read guards.
FreeLock == [w |-> 0, r |-> {}]

CanWrite(l) == l.w = 0 /\ l.r = {}

CanRead(l) == l.w = 0

AcquireWrite(l, p) == [l EXCEPT !.w = p]

AcquireRead(l, p) == [l EXCEPT !.r = @ \cup {p}]

ReleaseWrite(l) == [l EXCEPT !.w = 0]

ReleaseRead(l, p) == [l EXCEPT !.r = @ \ {p}]

\* A mutant: the write guard is dropped and the read lock is taken later.
DowngradeByRelease(l, p) == [l EXCEPT !.w = 0]

\* OwnedRwLockWriteGuard::downgrade: the writer becomes a reader in one step.
Downgrade(l, p) == [w |-> 0, r |-> l.r \cup {p}]

\* ------------------------------------------------------------ hashbrown HashMap (CHashMap's shard)
\* A shard is a set of stored entries [hash, key, value]; the table finds
\* entries by the hash they were stored under.

\* raw_entry().from_key_hashed_nocheck(hash, key): the entry, if any, stored under
\* `hash` whose key equals `key`.
FromKeyHashedNocheck(shard, hash, key) == {e \in shard : e.hash = hash /\ e.key = key}

\* raw_entry().from_hash(hash, |_| true): any entry stored under `hash`.
FromHash(shard, hash) == {e \in shard : e.hash = hash}

\* vacant.insert_hashed_nocheck(hash, key, value)
InsertHashedNocheck(shard, hash, key, value) ==
    shard \cup {[hash |-> hash, key |-> key, value |-> value]}

\* occupied.insert(value): replace the value of the occupied entry.
OccupiedInsert(shard, e, value) == (shard \ {e}) \cup {[e EXCEPT !.value = value]}

\* occupied.remove()
OccupiedRemove(shard, e) == shard \ {e}

\* HashMap::retain(f), f given as the set of keys it answers true for.
MapRetain(shard, keep) == {e \in shard : e.key \in keep}

\* ------------------------------------------------------------ tasks
\* A task's locals; every operation uses the fields it needs.  res is what the
\* call returned; was, seen, calls and dsize record, for the claims, what was
\* true at the step that decided the result; ans is the last answer of the
\* predicate given to evict, fresh the key that was the one most recently used
\* entry when an eviction was called (0 when there was none), since the keys
\* no call has touched since the task's get began.  dup and dcached are the
\* shards and cached lengths of the container duplicate() builds and returns,
\* sum its size.  cancelled tells that the call was dropped at an await, pre is
\* what the container held when a call that may be dropped began, sample what
\* the last step of evict drew and presented to the predicate.
NoLoc ==
    [op |-> "none", key |-> 0, val |-> 0, res |-> 0, i |-> 0, keep |-> {}, was |-> 0,
     ans |-> "none", fresh |-> 0, since |-> {}, dup |-> <<>>, dcached |-> <<>>,
     seen |-> 0, calls |-> 0, dsize |-> 0, t |-> 0,
     ne |-> <<>>, slot |-> "A", a |-> -1, b |-> -1, cur |-> -1, evicted |-> <<>>,
     cnt |-> 0, size0 |-> 0, sum |-> 0, sub |-> 0,
     keys |-> <<>>, cache |-> <<>>, acq |-> <<>>, log |-> <<>>,
     cancelled |-> FALSE, pre |-> <<>>, sample |-> <<>>]

\* The call of task p has returned; l holds its result.
Done(p, l) == pc' = [pc EXCEPT ![p] = "done"] /\ loc' = [loc EXCEPT ![p] = l]

\* No call is in progress: every task is between calls, has its result, holds
\* a handle a call has returned, or has panicked.
Quiescent == \A p \in Procs : pc[p] \in {"idle", "done", "get_held", "mut_held", "panic"}

\* The value stored for `key` anywhere in the map, found by key equality alone
\* (None when the key is not stored): the reference the lookups are judged by.
MapStored(shards, key) ==
    LET es == {e \in UNION {shards[s] : s \in Shards} : e.key = key}
    IN IF es = {} THEN None ELSE (CHOOSE e \in es : TRUE).value

MapLen(shards) == SetSum([s \in Shards |-> Cardinality(shards[s])], Shards)

\* ------------------------------------------------------------ CHashMap: bodies
\* Each body is the code run under the shard's lock, as a function of the shard
\* and the size counter.

\* A mutant: the vacant path forgets size.fetch_add(1).
DoMapInsertNoCount(shard, size, hash, key, value) ==
    LET occ == FromKeyHashedNocheck(shard, hash, key)
    IN IF occ # {}
       THEN LET e == CHOOSE x \in occ : TRUE
            IN [shard |-> OccupiedInsert(shard, e, value), size |-> size, res |-> e.value]
       ELSE [shard |-> InsertHashedNocheck(shard, hash, key, value), size |-> size,
             res |-> None]

\* CHashMap::insert
DoMapInsert(shard, size, hash, key, value) ==
    LET occ == FromKeyHashedNocheck(shard, hash, key)
    IN IF occ # {}
       THEN LET e == CHOOSE x \in occ : TRUE
            IN [shard |-> OccupiedInsert(shard, e, value), size |-> size, res |-> e.value]
       ELSE [shard |-> InsertHashedNocheck(shard, hash, key, value), size |-> size + 1,
             res |-> None]

\* CHashMap::remove
DoMapRemove(shard, size, hash, key) ==
    LET occ == FromKeyHashedNocheck(shard, hash, key)
    IN IF occ # {}
       THEN LET e == CHOOSE x \in occ : TRUE
            IN [shard |-> OccupiedRemove(shard, e), size |-> size - 1, res |-> e.value]
       ELSE [shard |-> shard, size |-> size, res |-> None]

\* A mutant: the entry is found by its hash alone, as contains_hash finds it.
DoMapGetByHash(shard, hash, key) ==
    LET occ == FromHash(shard, hash)
    IN IF occ # {} THEN (CHOOSE x \in occ : TRUE).value ELSE None

\* The lookup of CHashMap::get, get_cloned, get_mut and of the batches
\* (raw_entry().from_key_hashed_nocheck): the value, or None.
DoMapGet(shard, hash, key) ==
    LET occ == FromKeyHashedNocheck(shard, hash, key)
    IN IF occ # {} THEN (CHOOSE x \in occ : TRUE).value ELSE None

\* CHashMap::contains_hash: whether the shard of `hash` holds an entry stored under it.
DoContainsHash(shards, hash) == FromHash(shards[ShardOfHash(hash)], hash) # {}

\* CHashMap::contains: contains_hash of the key's hash.
DoContains(shards, key) == DoContainsHash(shards, HashAndShard(key)[1])

\* A mutant: the factory runs whether or not the key is vacant.
DoGetOrInsertEager(shard, size, hash, key, value) ==
    LET occ == FromKeyHashedNocheck(shard, hash, key)
    IN IF occ = {}
       THEN [shard |-> InsertHashedNocheck(shard, hash, key, value), size |-> size + 1,
             calls |-> 1]
       ELSE [shard |-> shard, size |-> size, calls |-> 1]

\* The write section of CHashMap::get_or_insert and the closure of
\* get_mut_or_insert: insert on_insert() if the entry is vacant.  calls counts
\* the invocations of on_insert.
DoGetOrInsert(shard, size, hash, key, value) ==
    LET occ == FromKeyHashedNocheck(shard, hash, key)
    IN IF occ = {}
       THEN [shard |-> InsertHashedNocheck(shard, hash, key, value), size |-> size + 1,
             calls |-> 1]
       ELSE [shard |-> shard, size |-> size, calls |-> 0]

\* One iteration of CHashMap::clear.
DoMapClear(shard, size) == [shard |-> {}, size |-> size - Cardinality(shard)]

\* One iteration of CHashMap::retain.
DoMapRetain(shard, size, keep) ==
    LET kept == MapRetain(shard, keep)
    IN [shard |-> kept, size |-> size - (Cardinality(shard) - Cardinality(kept))]

\* Assignment through a WriteHandle (&mut T) to the value of `key`.
WriteThrough(shard, hash, key, value) ==
    LET occ == FromKeyHashedNocheck(shard, hash, key)
    IN IF occ = {} THEN shard ELSE OccupiedInsert(shard, CHOOSE x \in occ : TRUE, value)

\* ------------------------------------------------------------ CHashMap: actions
\* A single-shard call waits for its shard's lock and then runs to its return
\* (or to the handle it returns) without suspending: one step, enabled when the
\* lock can be taken.

\* The workloads on a CHashMap.
OnMap == target \in {"map", "batch", "map_trip", "map_dup", "map_cancel"}

\* The workloads whose calls may be dropped while they wait for a lock.
Cancelling == target \in {"map_cancel", "lru_cancel"}

\* What a call that may be dropped finds when it begins.
Pre ==
    IF Cancelling
    THEN [map_shards |-> map_shards, map_size |-> map_size,
          lru_shards |-> lru_shards, lru_size |-> lru_size]
    ELSE <<>>

\* The caller has read the result: the task is free for its next call.
Finish(p) ==
    /\ pc[p] = "done"
    /\ pc' = [pc EXCEPT ![p] = "idle"]
    /\ loc' = [loc EXCEPT ![p] = NoLoc]
    /\ UNCHANGED <<target, mapVars, lruVars>>

MapInsert(p) ==
    /\ OnMap
    /\ pc[p] = "idle"
    /\ \E k \in InKeys, v \in InValues :
          LET hs == HashAndShard(k)
              s == hs[2]
              r == DoMapInsert(map_shards[s], map_size, hs[1], k, v)
          IN /\ CanWrite(map_lock[s])
             /\ map_shards' = [map_shards EXCEPT ![s] = r.shard]
             /\ map_size' = r.size
             /\ Done(p, [NoLoc EXCEPT !.op = "insert", !.key = k, !.val = v, !.res = r.res,
                                      !.was = MapStored(map_shards, k),
                                      !.dsize = r.size - map_size])
    /\ UNCHANGED <<target, map_lock, lruVars>>

MapRemove(p) ==
    /\ OnMap
    /\ pc[p] = "idle"
    /\ \E k \in InKeys :
          LET hs == HashAndShard(k)
              s == hs[2]
              r == DoMapRemove(map_shards[s], map_size, hs[1], k)
          IN /\ CanWrite(map_lock[s])
             /\ map_shards' = [map_shards EXCEPT ![s] = r.shard]
             /\ map_size' = r.size
             /\ Done(p, [NoLoc EXCEPT !.op = "remove", !.key = k, !.res = r.res,
                                      !.was = MapStored(map_shards, k),
                                      !.dsize = r.size - map_size])
    /\ UNCHANGED <<target, map_lock, lruVars>>

\* A caller's round trip, first call: insert(k, v) returns; the caller keeps
\* the size it read before the call.
MapTripInsert(p) ==
    /\ target = "map_trip"
    /\ pc[p] = "idle"
    /\ \E k \in InKeys, v \in InValues :
          LET hs == HashAndShard(k)
              s == hs[2]
              r == DoMapInsert(map_shards[s], map_size, hs[1], k, v)
          IN /\ CanWrite(map_lock[s])
             /\ map_shards' = [map_shards EXCEPT ![s] = r.shard]
             /\ map_size' = r.size
             /\ pc' = [pc EXCEPT ![p] = "map_trip"]
             /\ loc' = [loc EXCEPT ![p] =
                          [NoLoc EXCEPT !.op = "map_trip", !.key = k, !.val = v,
                                        !.was = MapStored(map_shards, k),
                                        !.size0 = map_size]]
    /\ UNCHANGED <<target, map_lock, lruVars>>

\* The round trip, second call: remove(k) of the key just inserted.
MapTripRemove(p) ==
    /\ pc[p] = "map_trip"
    /\ LET k == loc[p].key
           hs == HashAndShard(k)
           s == hs[2]
           r == DoMapRemove(map_shards[s], map_size, hs[1], k)
       IN /\ CanWrite(map_lock[s])
          /\ map_shards' = [map_shards EXCEPT ![s] = r.shard]
          /\ map_size' = r.size
          /\ Done(p, [loc[p] EXCEPT !.res = r.res, !.dsize = r.size - loc[p].size0])
    /\ UNCHANGED <<target, map_lock, lruVars>>

\* A mutant: the clone's length is not added to size.
DoMapDuplicateNoCount(shard, size) == [shard |-> shard, size |-> size]

\* One iteration of CHashMap::duplicate on the read-locked shard: the clone of
\* the HashMap (the same entries in a new table) and the running size.
DoMapDuplicate(shard, size) == [shard |-> shard, size |-> size + Cardinality(shard)]

\* Task 1 calls duplicate; it then waits for the read lock of shard 0.
MapDupCall(p) ==
    /\ target \in {"map_dup", "map_cancel"}
    /\ p = 1
    /\ pc[p] = "idle"
    /\ pc' = [pc EXCEPT ![p] = "map_dup"]
    /\ loc' = [loc EXCEPT ![p] = [NoLoc EXCEPT !.op = "duplicate", !.pre = Pre]]
    /\ UNCHANGED <<target, mapVars, lruVars>>

\* One iteration of duplicate: read-lock shard i, clone it, unlock; after the
\* last shard the new CHashMap is returned.
MapDupShard(p) ==
    /\ pc[p] = "map_dup"
    /\ LET s == loc[p].i
           r == DoMapDuplicate(map_shards[s], loc[p].sum)
           l == [loc[p] EXCEPT !.dup = Append(@, r.shard), !.sum = r.size, !.i = s + 1]
       IN /\ CanRead(map_lock[s])
          /\ IF s + 1 < ShardCount
             THEN /\ loc' = [loc EXCEPT ![p] = l]
                  /\ UNCHANGED pc
             ELSE Done(p, l)
    /\ UNCHANGED <<target, mapVars, lruVars>>

\* The caller inserts into or removes from the duplicate it holds.
MapDupEdit(p) ==
    /\ pc[p] = "done"
    /\ loc[p].op = "duplicate"
    /\ target = "map_dup"
    /\ \E k \in InKeys, v \in InValues, op \in {"insert", "remove"} :
          LET hs == HashAndShard(k)
              s == hs[2]
              r == IF op = "insert"
                   THEN DoMapInsert(loc[p].dup[s + 1], loc[p].sum, hs[1], k, v)
                   ELSE DoMapRemove(loc[p].dup[s + 1], loc[p].sum, hs[1], k)
          IN /\ (op = "remove") => (v = 1)
             /\ loc' = [loc EXCEPT ![p] = [@ EXCEPT !.dup[s + 1] = r.shard, !.sum = r.size]]
    /\ UNCHANGED <<target, mapVars, lruVars, pc>>

\* CHashMap::get: on a hit the read guard lives on in the returned handle.
MapGet(p) ==
    /\ target = "map"
    /\ pc[p] = "idle"
    /\ \E k \in InKeys :
          LET hs == HashAndShard(k)
              s == hs[2]
              v == DoMapGet(map_shards[s], hs[1], k)
              l == [NoLoc EXCEPT !.op = "get", !.key = k, !.res = v,
                                 !.was = MapStored(map_shards, k)]
          IN /\ CanRead(map_lock[s])
             /\ IF v # None
                THEN /\ map_lock' = [map_lock EXCEPT ![s] = AcquireRead(@, p)]
                     /\ pc' = [pc EXCEPT ![p] = "get_held"]
                     /\ loc' = [loc EXCEPT ![p] = l]
                ELSE /\ Done(p, l)
                     /\ UNCHANGED map_lock
    /\ UNCHANGED <<target, map_shards, map_size, lruVars>>

\* CHashMap::get_mut: on a hit the write guard lives on in the returned handle.
MapGetMut(p) ==
    /\ target = "map"
    /\ pc[p] = "idle"
    /\ \E k \in InKeys :
          LET hs == HashAndShard(k)
              s == hs[2]
              v == DoMapGet(map_shards[s], hs[1], k)
              l == [NoLoc EXCEPT !.op = "get_mut", !.key = k, !.res = v,
                                 !.was = MapStored(map_shards, k)]
          IN /\ CanWrite(map_lock[s])
             /\ IF v # None
                THEN /\ map_lock' = [map_lock EXCEPT ![s] = AcquireWrite(@, p)]
                     /\ pc' = [pc EXCEPT ![p] = "mut_held"]
                     /\ loc' = [loc EXCEPT ![p] = l]
                ELSE /\ Done(p, l)
                     /\ UNCHANGED map_lock
    /\ UNCHANGED <<target, map_shards, map_size, lruVars>>

\* CHashMap::contains
MapContains(p) ==
    /\ target = "map"
    /\ pc[p] = "idle"
    /\ \E k \in InKeys :
          /\ CanRead(map_lock[HashAndShard(k)[2]])
          /\ Done(p, [NoLoc EXCEPT !.op = "contains", !.key = k,
                                   !.res = IF DoContains(map_shards, k) THEN 1 ELSE 0,
                                   !.was = MapStored(map_shards, k)])
    /\ UNCHANGED <<target, mapVars, lruVars>>

\* get_or_insert, the write section: lock, insert on_insert() if vacant.
MapGetOrInsertWrite(p) ==
    /\ target = "map"
    /\ pc[p] = "idle"
    /\ \E k \in InKeys, v \in InValues :
          LET hs == HashAndShard(k)
              s == hs[2]
              r == DoGetOrInsert(map_shards[s], map_size, hs[1], k, v)
          IN /\ CanWrite(map_lock[s])
             /\ map_lock' = [map_lock EXCEPT ![s] = AcquireWrite(@, p)]
             /\ map_shards' = [map_shards EXCEPT ![s] = r.shard]
             /\ map_size' = r.size
             /\ pc' = [pc EXCEPT ![p] = "goi_downgrade"]
             /\ loc' = [loc EXCEPT ![p] =
                           [NoLoc EXCEPT !.op = "get_or_insert", !.key = k, !.val = v,
                                         !.was = MapStored(map_shards, k),
                                         !.seen = MapStored(map_shards', k),
                                         !.calls = r.calls,
                                         !.dsize = r.size - map_size]]
    /\ UNCHANGED <<target, lruVars>>

\* get_or_insert: OwnedRwLockWriteGuard::downgrade(shard).
MapGetOrInsertDowngrade(p) ==
    /\ pc[p] = "goi_downgrade"
    /\ LET s == HashAndShard(loc[p].key)[2]
       IN map_lock' = [map_lock EXCEPT ![s] = Downgrade(@, p)]
    /\ pc' = [pc EXCEPT ![p] = "goi_lookup"]
    /\ UNCHANGED <<target, map_shards, map_size, loc, lruVars>>

\* get_or_insert: the second lookup, under the read guard; a miss is unreachable!().
MapGetOrInsertLookup(p) ==
    /\ pc[p] = "goi_lookup"
    /\ LET k == loc[p].key
           hs == HashAndShard(k)
           v == DoMapGet(map_shards[hs[2]], hs[1], k)
       IN /\ pc' = [pc EXCEPT ![p] = IF v = None THEN "panic" ELSE "get_held"]
          /\ loc' = [loc EXCEPT ![p] = [@ EXCEPT !.res = v]]
    /\ UNCHANGED <<target, mapVars, lruVars>>

\* get_mut_or_insert: lock, insert on_insert() if vacant, return the write handle.
MapGetMutOrInsert(p) ==
    /\ target = "map"
    /\ pc[p] = "idle"
    /\ \E k \in InKeys, v \in InValues :
          LET hs == HashAndShard(k)
              s == hs[2]
              r == DoGetOrInsert(map_shards[s], map_size, hs[1], k, v)
          IN /\ CanWrite(map_lock[s])
             /\ map_lock' = [map_lock EXCEPT ![s] = AcquireWrite(@, p)]
             /\ map_shards' = [map_shards EXCEPT ![s] = r.shard]
             /\ map_size' = r.size
             /\ pc' = [pc EXCEPT ![p] = "mut_held"]
             /\ loc' = [loc EXCEPT ![p] =
                           [NoLoc EXCEPT !.op = "get_mut_or_insert", !.key = k, !.val = v,
                                         !.was = MapStored(map_shards, k),
                                         !.seen = MapStored(map_shards', k),
                                         !.res = DoMapGet(r.shard, hs[1], k),
                                         !.calls = r.calls,
                                         !.dsize = r.size - map_size]]
    /\ UNCHANGED <<target, lruVars>>

\* The holder of a WriteHandle assigns through it.
MapHandleWrite(p) ==
    /\ target = "map"
    /\ pc[p] = "mut_held"
    /\ LET k == loc[p].key
           hs == HashAndShard(k)
           s == hs[2]
       IN \E v \in InValues :
             /\ v # DoMapGet(map_shards[s], hs[1], k)
             /\ map_shards' = [map_shards EXCEPT ![s] = WriteThrough(@, hs[1], k, v)]
    /\ UNCHANGED <<target, map_size, map_lock, lruVars, pc, loc>>

\* A ReadHandle is dropped: its read guard is released.
MapDropRead(p) ==
    /\ target = "map"
    /\ pc[p] = "get_held"
    /\ LET s == HashAndShard(loc[p].key)[2]
       IN map_lock' = [map_lock EXCEPT ![s] = ReleaseRead(@, p)]
    /\ pc' = [pc EXCEPT ![p] = "idle"]
    /\ loc' = [loc EXCEPT ![p] = NoLoc]
    /\ UNCHANGED <<target, map_shards, map_size, lruVars>>

\* A WriteHandle is dropped: its write guard is released.
MapDropWrite(p) ==
    /\ target = "map"
    /\ pc[p] = "mut_held"
    /\ LET s == HashAndShard(loc[p].key)[2]
       IN map_lock' = [map_lock EXCEPT ![s] = ReleaseWrite(@)]
    /\ pc' = [pc EXCEPT ![p] = "idle"]
    /\ loc' = [loc EXCEPT ![p] = NoLoc]
    /\ UNCHANGED <<target, map_shards, map_size, lruVars>>

\* A task calls clear or retain; keep is the set of keys the predicate keeps.
\* It then waits for the lock of shard 0.
MapSweepCall(p) ==
    /\ target \in {"map", "map_cancel"}
    /\ pc[p] = "idle"
    /\ \E op \in {"clear", "retain"}, keep \in SUBSET InKeys :
          /\ (op = "clear") => (keep = {})
          /\ pc' = [pc EXCEPT ![p] = op]
          /\ loc' = [loc EXCEPT ![p] = [NoLoc EXCEPT !.op = op, !.keep = keep, !.pre = Pre]]
    /\ UNCHANGED <<target, mapVars, lruVars>>

\* One iteration of clear or retain: lock shard i, sweep it, fix size, unlock.
MapSweep(p) ==
    /\ target \in {"map", "map_cancel"}
    /\ pc[p] \in {"clear", "retain"}
    /\ LET s == loc[p].i
           r == IF pc[p] = "clear" THEN DoMapClear(map_shards[s], map_size)
                ELSE DoMapRetain(map_shards[s], map_size, loc[p].keep)
       IN /\ CanWrite(map_lock[s])
          /\ map_shards' = [map_shards EXCEPT ![s] = r.shard]
          /\ map_size' = r.size
          /\ IF s + 1 < ShardCount
             THEN /\ loc' = [loc EXCEPT ![p] = [@ EXCEPT !.i = s + 1]]
                  /\ UNCHANGED pc
             ELSE Done(p, loc[p])
    /\ UNCHANGED <<target, map_lock, lruVars>>

MapStep(p) ==
    \/ MapInsert(p)
    \/ MapRemove(p)
    \/ MapGet(p)
    \/ MapGetMut(p)
    \/ MapContains(p)
    \/ MapGetOrInsertWrite(p)
    \/ MapGetOrInsertDowngrade(p)
    \/ MapGetOrInsertLookup(p)
    \/ MapGetMutOrInsert(p)
    \/ MapHandleWrite(p)
    \/ MapDropRead(p)
    \/ MapDropWrite(p)
    \/ MapSweepCall(p)
    \/ MapSweep(p)

\* ------------------------------------------------------------ CHashMap: batch_read, batch_write
\* The key sequences passed to a batch: any order, duplicates included.
InBatches == UNION {[1 .. n -> InKeys] : n \in 0 .. MaxBatch}

\* cache.extend(keys.map(|key| (key, hash, shard)))
CacheOf(keys) ==
    [i \in 1 .. Len(keys) |->
        [key |-> keys[i], hash |-> HashAndShard(keys[i])[1], shard |-> HashAndShard(keys[i])[2]]]

\* A mutant: the cache is walked in the order the keys were given.
NoSort(cache) == {cache}

\* cache.sort_unstable_by_key(|(_, _, shard)| *shard): the orders an unstable
\* sort may leave the cache in.
SortUnstableByKey(cache) ==
    {c \in SeqPerms(cache) : \A i, j \in 1 .. Len(c) : i < j => c[i].shard <= c[j].shard}

\* What the callback of batch_write may do with the RawEntryMut it is given
\* (v is the value it brings): replace or remove an occupied entry, fill a
\* vacant one, or leave the entry alone.
DoBatchEntry(shard, hash, key, eff, v) ==
    LET occ == FromKeyHashedNocheck(shard, hash, key)
    IN IF occ # {}
       THEN IF eff = "set" THEN OccupiedInsert(shard, CHOOSE x \in occ : TRUE, v)
            ELSE IF eff = "remove" THEN OccupiedRemove(shard, CHOOSE x \in occ : TRUE)
            ELSE shard
       ELSE IF eff = "insert" THEN InsertHashedNocheck(shard, hash, key, v) ELSE shard

\* The guards of map shards task p holds.
MapHeld(lock, p) == {s \in Shards : lock[s].w = p \/ p \in lock[s].r}

\* Task 1 calls batch_read or batch_write (the other tasks insert and remove
\* meanwhile): the cache is filled and sorted; an empty batch returns at once.
BatchCall(p) ==
    /\ target \in {"batch", "map_cancel"}
    /\ p = 1
    /\ pc[p] = "idle"
    /\ \E op \in {"batch_read", "batch_write"}, ks \in InBatches :
          \E c \in SortUnstableByKey(CacheOf(ks)) :
             LET l == [NoLoc EXCEPT !.op = op, !.keys = ks, !.cache = c, !.pre = Pre]
             IN IF c = <<>>
                THEN Done(p, l)
                ELSE /\ pc' = [pc EXCEPT ![p] = "batch_lock"]
                     /\ loc' = [loc EXCEPT ![p] = l]
    /\ UNCHANGED <<target, mapVars, lruVars>>

\* 'outer: the lock of cache[i]'s shard is taken, read or write.
BatchLock(p) ==
    /\ pc[p] = "batch_lock"
    /\ LET s == loc[p].cache[loc[p].i + 1].shard
       IN /\ IF loc[p].op = "batch_read"
             THEN /\ CanRead(map_lock[s])
                  /\ map_lock' = [map_lock EXCEPT ![s] = AcquireRead(@, p)]
             ELSE /\ CanWrite(map_lock[s])
                  /\ map_lock' = [map_lock EXCEPT ![s] = AcquireWrite(@, p)]
          /\ loc' = [loc EXCEPT ![p] = [@ EXCEPT !.cur = s, !.acq = Append(@, s)]]
    /\ pc' = [pc EXCEPT ![p] = "batch_item"]
    /\ UNCHANGED <<target, map_shards, map_size, lruVars>>

\* One round of the inner while: the callback is given cache[i]'s key and its
\* entry in the locked shard; then i += 1, and the guard is dropped when the
\* batch is over or the next key belongs to another shard.  The callback's edits
\* leave size alone; they are made while size is within MaxDrift of the number
\* of stored entries.  log records each
\* invocation: the key, the entry given (got), the value stored for the key in
\* the whole map at that moment (was) and whether the shard's guard was held.
BatchItem(p) ==
    /\ pc[p] = "batch_item"
    /\ LET c == loc[p].cache
           i == loc[p].i
           s == loc[p].cur
           e == c[i + 1]
           call == [key |-> e.key, got |-> DoMapGet(map_shards[s], e.hash, e.key),
                    was |-> MapStored(map_shards, e.key),
                    held |-> (s = e.shard /\ s \in MapHeld(map_lock, p))]
           l == [loc[p] EXCEPT !.i = i + 1, !.log = Append(@, call)]
           free == IF loc[p].op = "batch_read" THEN ReleaseRead(map_lock[s], p)
                   ELSE ReleaseWrite(map_lock[s])
       IN /\ \E eff \in {"keep", "set", "remove", "insert"}, v \in InValues :
                /\ (loc[p].op = "batch_read") => (eff = "keep")
                /\ (eff \in {"keep", "remove"}) => (v = 1)
                /\ map_shards' = [map_shards EXCEPT ![s] = DoBatchEntry(@, e.hash, e.key, eff, v)]
                /\ map_size - MapLen(map_shards') \in (0 - MaxDrift) .. MaxDrift
          /\ IF i + 1 >= Len(c)
             THEN /\ map_lock' = [map_lock EXCEPT ![s] = free]
                  /\ Done(p, [l EXCEPT !.cache = <<>>, !.cur = -1])
             ELSE IF c[i + 2].shard # s
                  THEN /\ map_lock' = [map_lock EXCEPT ![s] = free]
                       /\ pc' = [pc EXCEPT ![p] = "batch_lock"]
                       /\ loc' = [loc EXCEPT ![p] = [l EXCEPT !.cur = -1]]
                  ELSE /\ loc' = [loc EXCEPT ![p] = l]
                       /\ UNCHANGED <<pc, map_lock>>
    /\ UNCHANGED <<target, map_size, lruVars>>

BatchStep(p) ==
    \/ BatchCall(p)
    \/ BatchLock(p)
    \/ BatchItem(p)

\* ------------------------------------------------------------ IndexedShard
\* entries is the vector of buckets [hash, key, value, ts] (the LRU value is a
\* TimestampedValue: value and ts); slot i of the code is entries[i + 1].
\* indices is the RawTable<usize>: the set of stored slot numbers, each filed
\* under a hash, [hash, idx].
NewShard == [indices |-> {}, entries |-> <<>>]

NoIdx == -1

\* No bucket: what a lookup that misses yields.
NoBucket == [hash |-> 0, key |-> 0, value |-> None, ts |-> 0]

\* IndexedShard::len: the length of indices.
ShardLen(sh) == Cardinality(sh.indices)

\* A mutant: the first slot filed under the hash, whatever its key.
GetIndexOfByHash(sh, hash, key) ==
    LET m == {x \in sh.indices : x.hash = hash}
    IN IF m = {} THEN NoIdx ELSE (CHOOSE x \in m : \A y \in m : x.idx <= y.idx).idx

\* IndexedShard::get_index_of: the slot filed under `hash` whose key equals `key`.
GetIndexOf(sh, hash, key) ==
    LET m == {x \in sh.indices : x.hash = hash /\ sh.entries[x.idx + 1].key = key}
    IN IF m = {} THEN NoIdx ELSE (CHOOSE x \in m : TRUE).idx

\* IndexedShard::get / get_mut: the bucket of `key`, or None.
ShardGet(sh, hash, key) ==
    LET i == GetIndexOf(sh, hash, key)
    IN IF i = NoIdx THEN NoBucket ELSE sh.entries[i + 1]

\* IndexedShard::push
Push(sh, hash, key, value, ts) ==
    [indices |-> sh.indices \cup {[hash |-> hash, idx |-> Len(sh.entries)]},
     entries |-> Append(sh.entries, [hash |-> hash, key |-> key, value |-> value, ts |-> ts])]

\* IndexedShard::insert_full: vacant says whether before_insert was called.
InsertFull(sh, hash, key, value, ts) ==
    LET i == GetIndexOf(sh, hash, key)
    IN IF i # NoIdx
       THEN [shard |-> [sh EXCEPT !.entries[i + 1].value = value, !.entries[i + 1].ts = ts],
             old |-> sh.entries[i + 1].value, vacant |-> FALSE]
       ELSE [shard |-> Push(sh, hash, key, value, ts), old |-> None, vacant |-> TRUE]

\* RawTable::erase_entry(hash, |&idx| idx == index)
EraseEntry(indices, hash, index) == indices \ {[hash |-> hash, idx |-> index]}

\* Vec::swap_remove(index)
VecSwapRemove(entries, index) ==
    IF index + 1 = Len(entries) THEN Front(entries)
    ELSE [Front(entries) EXCEPT ![index + 1] = Last(entries)]

\* A mutant: the index of the bucket moved into the hole is left as it was.
SwapRemoveFinishStaleIndex(sh, index) ==
    [shard |-> [indices |-> sh.indices, entries |-> VecSwapRemove(sh.entries, index)],
     bucket |-> sh.entries[index + 1]]

\* IndexedShard::swap_remove_finish, after the erase of the removed slot's index:
\* the last bucket moves into the hole and its index is corrected.
SwapRemoveFinish(sh, index) ==
    LET left == VecSwapRemove(sh.entries, index)
        last == Len(left)
    IN [shard |->
          IF index < Len(left)
          THEN [indices |-> (sh.indices \ {[hash |-> left[index + 1].hash, idx |-> last]})
                               \cup {[hash |-> left[index + 1].hash, idx |-> index]},
                entries |-> left]
          ELSE [indices |-> sh.indices, entries |-> left],
        bucket |-> sh.entries[index + 1]]

\* IndexedShard::swap_remove_index_raw
SwapRemoveIndexRaw(sh, index) ==
    SwapRemoveFinish([sh EXCEPT !.indices = EraseEntry(@, sh.entries[index + 1].hash, index)],
                     index)

\* IndexedShard::swap_remove_full: found says whether the key was there.
SwapRemoveFull(sh, hash, key) ==
    LET i == GetIndexOf(sh, hash, key)
    IN IF i = NoIdx THEN [shard |-> sh, bucket |-> NoBucket, found |-> FALSE]
       ELSE LET r == SwapRemoveFinish([sh EXCEPT !.indices = EraseEntry(@, hash, i)], i)
            IN [shard |-> r.shard, bucket |-> r.bucket, found |-> TRUE]

\* A mutant: the slot index advances after a removal too, as in a plain scan.
RECURSIVE ShardRetainAdvancing(_, _, _, _)
ShardRetainAdvancing(sh, keep, i, calls) ==
    IF i >= ShardLen(sh) THEN [shard |-> sh, calls |-> calls]
    ELSE LET k == sh.entries[i + 1].key
         IN IF k \in keep THEN ShardRetainAdvancing(sh, keep, i + 1, Append(calls, k))
            ELSE ShardRetainAdvancing(SwapRemoveIndexRaw(sh, i).shard, keep, i + 1,
                                      Append(calls, k))

\* IndexedShard::retain from slot i on; f is given as the set of keys it keeps,
\* calls are the keys f has been called with so far.
RECURSIVE ShardRetainFrom(_, _, _, _)
ShardRetainFrom(sh, keep, i, calls) ==
    IF i >= ShardLen(sh) THEN [shard |-> sh, calls |-> calls]
    ELSE LET k == sh.entries[i + 1].key
         IN IF k \in keep THEN ShardRetainFrom(sh, keep, i + 1, Append(calls, k))
            ELSE ShardRetainFrom(SwapRemoveIndexRaw(sh, i).shard, keep, i, Append(calls, k))

ShardRetain(sh, keep) == ShardRetainFrom(sh, keep, 0, <<>>)

\* IndexedShard::clear
ShardClear(sh) == [indices |-> {}, entries |-> <<>>]

\* ------------------------------------------------------------ LruCache: bodies
\* A mutant: on_insert runs on the occupied path too.
DoLruInsertAlwaysCounts(sh, size, cached, hash, key, value, now) ==
    LET r == InsertFull(sh, hash, key, value, now)
    IN [shard |-> r.shard, size |-> size + 1, cached |-> cached + 1, res |-> r.old]

\* A mutant: on_insert counts the entry in size only.
DoLruInsertSizeOnly(sh, size, cached, hash, key, value, now) ==
    LET r == InsertFull(sh, hash, key, value, now)
    IN [shard |-> r.shard, size |-> IF r.vacant THEN size + 1 ELSE size,
        cached |-> cached, res |-> r.old]

\* LruCache::insert; now is T::now().
DoLruInsert(sh, size, cached, hash, key, value, now) ==
    LET r == InsertFull(sh, hash, key, value, now)
    IN [shard |-> r.shard,
        size |-> IF r.vacant THEN size + 1 ELSE size,
        cached |-> IF r.vacant THEN cached + 1 ELSE cached,
        res |-> r.old]

\* A mutant: the cached length is stored whether or not the key was found.
DoLruRemoveAlwaysStores(sh, size, cached, hash, key) ==
    LET r == SwapRemoveFull(sh, hash, key)
    IN IF r.found
       THEN [shard |-> r.shard, size |-> size - 1, cached |-> ShardLen(r.shard),
             res |-> r.bucket.value]
       ELSE [shard |-> sh, size |-> size, cached |-> ShardLen(sh), res |-> None]

\* LruCache::remove
DoLruRemove(sh, size, cached, hash, key) ==
    LET r == SwapRemoveFull(sh, hash, key)
    IN IF r.found
       THEN [shard |-> r.shard, size |-> size - 1, cached |-> ShardLen(r.shard),
             res |-> r.bucket.value]
       ELSE [shard |-> sh, size |-> size, cached |-> cached, res |-> None]

\* One iteration of LruCache::clear; the cached length is left as it is.
DoLruClear(sh, size) ==
    [shard |-> ShardClear(sh), size |-> size - ShardLen(sh), calls |-> <<>>]

\* One iteration of LruCache::retain; the cached length is left as it is.
DoLruRetain(sh, size, keep) ==
    LET r == ShardRetain(sh, keep)
    IN [shard |-> r.shard, size |-> size - (ShardLen(sh) - ShardLen(r.shard)),
        calls |-> r.calls]

\* The bucket stored for `key` anywhere in the cache, found by key equality
\* alone (NoBucket when the key is not stored): the reference lookups are judged by.
LruStored(shards, key) ==
    LET bs == {b \in UNION {Range(shards[s].entries) : s \in Shards} : b.key = key}
    IN IF bs = {} THEN NoBucket ELSE CHOOSE b \in bs : TRUE

LruStoredValue(shards, key) == LruStored(shards, key).value

LruLen(shards) == SetSum([s \in Shards |-> ShardLen(shards[s])], Shards)

\* get / peek as a caller sees them: the value found through the key's hash.
LruLookup(shards, key) ==
    LET hs == HashAndShard(key)
    IN ShardGet(shards[hs[2]], hs[1], key).value

\* ------------------------------------------------------------ LruCache: actions
OnLru ==
    target \in {"lru", "walk", "race", "lru_trip", "stamp", "lru_dup", "lru_cancel", "sample"}

\* The workloads of one caller, where the clock runs and entries are removed.
OneCaller == target \in {"lru", "walk", "lru_trip"}

\* The clock advances; two readings may be equal.
Tick ==
    /\ OneCaller \/ target \in {"stamp", "lru_dup", "sample"}
    /\ clock < MaxClock
    /\ clock' = clock + 1
    /\ UNCHANGED <<target, mapVars, lru_shards, lru_cached, lru_size, lru_lock, pc, loc>>

\* The locals after task p, whose own locals become l, has touched `key`: the
\* key leaves the untouched keys the other tasks keep.
Touched(p, key, l) ==
    [q \in AllProcs |-> IF q = p THEN l ELSE [loc[q] EXCEPT !.since = @ \ {key}]]

\* The keys stored in the cache.
LruKeys(shards) == {b.key : b \in UNION {Range(shards[s].entries) : s \in Shards}}

LruInsert(p) ==
    /\ OnLru
    /\ pc[p] = "idle"
    /\ \E k \in InKeys, v \in InValues :
          LET hs == HashAndShard(k)
              s == hs[2]
              r == DoLruInsert(lru_shards[s], lru_size, lru_cached[s], hs[1], k, v, clock)
          IN /\ CanWrite(lru_lock[s])
             /\ r.cached <= CachedCap
             /\ lru_shards' = [lru_shards EXCEPT ![s] = r.shard]
             /\ lru_size' = r.size
             /\ lru_cached' = [lru_cached EXCEPT ![s] = r.cached]
             /\ pc' = [pc EXCEPT ![p] = "done"]
             /\ loc' = Touched(p, k,
                          [NoLoc EXCEPT !.op = "insert", !.key = k, !.val = v, !.res = r.res,
                                        !.was = LruStoredValue(lru_shards, k),
                                        !.dsize = r.size - lru_size])
    /\ UNCHANGED <<target, mapVars, lru_lock, clock>>

LruRemove(p) ==
    /\ OneCaller \/ target \in {"lru_dup", "lru_cancel"}
    /\ pc[p] = "idle"
    /\ \E k \in InKeys :
          LET hs == HashAndShard(k)
              s == hs[2]
              r == DoLruRemove(lru_shards[s], lru_size, lru_cached[s], hs[1], k)
          IN /\ CanWrite(lru_lock[s])
             /\ lru_shards' = [lru_shards EXCEPT ![s] = r.shard]
             /\ lru_size' = r.size
             /\ lru_cached' = [lru_cached EXCEPT ![s] = r.cached]
             /\ Done(p, [NoLoc EXCEPT !.op = "remove", !.key = k, !.res = r.res,
                                      !.was = LruStoredValue(lru_shards, k),
                                      !.i = GetIndexOf(lru_shards[s], hs[1], k),
                                      !.dsize = r.size - lru_size])
    /\ UNCHANGED <<target, mapVars, lru_lock, clock>>

\* A caller's round trip on the cache, first call: insert(k, v) returns.
LruTripInsert(p) ==
    /\ target = "lru_trip"
    /\ pc[p] = "idle"
    /\ \E k \in InKeys, v \in InValues :
          LET hs == HashAndShard(k)
              s == hs[2]
              r == DoLruInsert(lru_shards[s], lru_size, lru_cached[s], hs[1], k, v, clock)
          IN /\ CanWrite(lru_lock[s])
             /\ r.cached <= CachedCap
             /\ lru_shards' = [lru_shards EXCEPT ![s] = r.shard]
             /\ lru_size' = r.size
             /\ lru_cached' = [lru_cached EXCEPT ![s] = r.cached]
             /\ pc' = [pc EXCEPT ![p] = "lru_trip"]
             /\ loc' = [loc EXCEPT ![p] =
                          [NoLoc EXCEPT !.op = "lru_trip", !.key = k, !.val = v,
                                        !.was = LruStoredValue(lru_shards, k),
                                        !.size0 = lru_size]]
    /\ UNCHANGED <<target, mapVars, lru_lock, clock>>

\* The round trip on the cache, second call: remove(k) of the key just inserted.
LruTripRemove(p) ==
    /\ pc[p] = "lru_trip"
    /\ LET k == loc[p].key
           hs == HashAndShard(k)
           s == hs[2]
           r == DoLruRemove(lru_shards[s], lru_size, lru_cached[s], hs[1], k)
       IN /\ CanWrite(lru_lock[s])
          /\ lru_shards' = [lru_shards EXCEPT ![s] = r.shard]
          /\ lru_size' = r.size
          /\ lru_cached' = [lru_cached EXCEPT ![s] = r.cached]
          /\ Done(p, [loc[p] EXCEPT !.res = r.res, !.dsize = r.size - loc[p].size0])
    /\ UNCHANGED <<target, mapVars, lru_lock, clock>>

\* IndexedShard::clone: the indices are copied, each bucket is cloned, and
\* TimestampedValue::clone stamps every clone with T::now().
CloneShard(sh, now) ==
    [indices |-> sh.indices,
     entries |-> [i \in 1 .. Len(sh.entries) |-> [sh.entries[i] EXCEPT !.ts = now]]]

\* One iteration of LruCache::duplicate on the read-locked shard: the clone,
\* its cached length and the running size.
DoLruDuplicate(sh, size, now) ==
    LET c == CloneShard(sh, now)
    IN [shard |-> c, cached |-> ShardLen(c), size |-> size + ShardLen(c)]

\* Task 1 calls duplicate; it then waits for the read lock of shard 0.
LruDupCall(p) ==
    /\ target \in {"lru_dup", "lru_cancel"}
    /\ p = 1
    /\ pc[p] = "idle"
    /\ pc' = [pc EXCEPT ![p] = "lru_dup"]
    /\ loc' = [loc EXCEPT ![p] = [NoLoc EXCEPT !.op = "duplicate", !.pre = Pre]]
    /\ UNCHANGED <<target, mapVars, lruVars>>

\* One iteration of duplicate: read-lock shard i, clone it, unlock; after the
\* last shard the new LruCache is returned.
LruDupShard(p) ==
    /\ pc[p] = "lru_dup"
    /\ LET s == loc[p].i
           r == DoLruDuplicate(lru_shards[s], loc[p].sum, clock)
           l == [loc[p] EXCEPT !.dup = Append(@, r.shard), !.dcached = Append(@, r.cached),
                               !.sum = r.size, !.i = s + 1]
       IN /\ CanRead(lru_lock[s])
          /\ IF s + 1 < ShardCount
             THEN /\ loc' = [loc EXCEPT ![p] = l]
                  /\ UNCHANGED pc
             ELSE Done(p, l)
    /\ UNCHANGED <<target, mapVars, lruVars>>

\* The caller inserts into or removes from the duplicate it holds.
LruDupEdit(p) ==
    /\ pc[p] = "done"
    /\ loc[p].op = "duplicate"
    /\ target = "lru_dup"
    /\ \E k \in InKeys, v \in InValues, op \in {"insert", "remove"} :
          LET hs == HashAndShard(k)
              s == hs[2]
              d == loc[p].dup[s + 1]
              c == loc[p].dcached[s + 1]
              r == IF op = "insert"
                   THEN DoLruInsert(d, loc[p].sum, c, hs[1], k, v, clock)
                   ELSE DoLruRemove(d, loc[p].sum, c, hs[1], k)
          IN /\ (op = "remove") => (v = 1)
             /\ loc' = [loc EXCEPT ![p] = [@ EXCEPT !.dup[s + 1] = r.shard,
                                                    !.dcached[s + 1] = r.cached,
                                                    !.sum = r.size]]
    /\ UNCHANGED <<target, mapVars, lruVars, pc>>

\* LruCache::peek and the get_raw of LruCache::get: on a hit the read guard
\* lives on; get goes on to refresh the timestamp.
LruGetRaw(p) ==
    /\ target \in {"lru", "stamp"}
    /\ pc[p] = "idle"
    /\ \E k \in InKeys, op \in {"peek", "get"} :
          LET hs == HashAndShard(k)
              s == hs[2]
              v == ShardGet(lru_shards[s], hs[1], k).value
              l == [NoLoc EXCEPT !.op = op, !.key = k, !.res = v,
                                 !.was = LruStoredValue(lru_shards, k),
                                 !.since = IF op = "get" /\ v # None
                                           THEN LruKeys(lru_shards) \ {k} ELSE {}]
          IN /\ CanRead(lru_lock[s])
             /\ IF v # None
                THEN /\ lru_lock' = [lru_lock EXCEPT ![s] = AcquireRead(@, p)]
                     /\ pc' = [pc EXCEPT ![p] = IF op = "get" THEN "get_now" ELSE "get_held"]
                     /\ loc' = [loc EXCEPT ![p] = l]
                ELSE /\ Done(p, l)
                     /\ UNCHANGED lru_lock
    /\ UNCHANGED <<target, mapVars, lru_shards, lru_cached, lru_size, clock>>

\* AtomicInstant::update, first half: quanta::Instant::now() is read.
LruGetNow(p) ==
    /\ pc[p] = "get_now"
    /\ pc' = [pc EXCEPT ![p] = "get_store"]
    /\ loc' = [loc EXCEPT ![p] = [@ EXCEPT !.t = clock]]
    /\ UNCHANGED <<target, mapVars, lruVars>>

\* A mutant: every bucket of the shard is stamped.
StoreStampAll(sh, hash, key, t) ==
    [sh EXCEPT !.entries = [i \in 1 .. Len(sh.entries) |-> [sh.entries[i] EXCEPT !.ts = t]]]

\* The timestamp of the bucket of `key` set to t.
StoreStamp(sh, hash, key, t) ==
    LET i == GetIndexOf(sh, hash, key)
    IN IF i = NoIdx THEN sh ELSE [sh EXCEPT !.entries[i + 1].ts = t]

\* AtomicInstant::update, second half: the reading is stored, under the read guard.
LruGetStore(p) ==
    /\ pc[p] = "get_store"
    /\ LET k == loc[p].key
           hs == HashAndShard(k)
       IN lru_shards' = [lru_shards EXCEPT ![hs[2]] = StoreStamp(@, hs[1], k, loc[p].t)]
    /\ pc' = [pc EXCEPT ![p] = "get_held"]
    /\ loc' = Touched(p, loc[p].key, loc[p])
    /\ UNCHANGED <<target, mapVars, lru_cached, lru_size, lru_lock, clock>>

\* LruCache::peek_mut and get_mut: on a hit the write guard lives on; get_mut
\* sets the timestamp to T::now().
LruGetMutRaw(p) ==
    /\ target = "lru"
    /\ pc[p] = "idle"
    /\ \E k \in InKeys, op \in {"peek_mut", "get_mut"} :
          LET hs == HashAndShard(k)
              s == hs[2]
              v == ShardGet(lru_shards[s], hs[1], k).value
              l == [NoLoc EXCEPT !.op = op, !.key = k, !.res = v,
                                 !.was = LruStoredValue(lru_shards, k)]
          IN /\ CanWrite(lru_lock[s])
             /\ IF v # None
                THEN /\ lru_lock' = [lru_lock EXCEPT ![s] = AcquireWrite(@, p)]
                     /\ lru_shards' = [lru_shards EXCEPT ![s] =
                           IF op = "get_mut" THEN StoreStamp(@, hs[1], k, clock) ELSE @]
                     /\ pc' = [pc EXCEPT ![p] = "mut_held"]
                     /\ loc' = [loc EXCEPT ![p] = l]
                ELSE /\ Done(p, l)
                     /\ UNCHANGED <<lru_lock, lru_shards>>
    /\ UNCHANGED <<target, mapVars, lru_cached, lru_size, clock>>

\* The value of the bucket of `key` set through a WriteHandle.
StoreValue(sh, hash, key, value) ==
    LET i == GetIndexOf(sh, hash, key)
    IN IF i = NoIdx THEN sh ELSE [sh EXCEPT !.entries[i + 1].value = value]

LruHandleWrite(p) ==
    /\ target = "lru"
    /\ pc[p] = "mut_held"
    /\ LET k == loc[p].key
           hs == HashAndShard(k)
           s == hs[2]
       IN \E v \in InValues :
             /\ v # ShardGet(lru_shards[s], hs[1], k).value
             /\ lru_shards' = [lru_shards EXCEPT ![s] = StoreValue(@, hs[1], k, v)]
    /\ UNCHANGED <<target, mapVars, lru_cached, lru_size, lru_lock, clock, pc, loc>>

LruDropRead(p) ==
    /\ target \in {"lru", "stamp"}
    /\ pc[p] = "get_held"
    /\ LET s == HashAndShard(loc[p].key)[2]
       IN lru_lock' = [lru_lock EXCEPT ![s] = ReleaseRead(@, p)]
    /\ pc' = [pc EXCEPT ![p] = "idle"]
    /\ loc' = [loc EXCEPT ![p] = NoLoc]
    /\ UNCHANGED <<target, mapVars, lru_shards, lru_cached, lru_size, clock>>

LruDropWrite(p) ==
    /\ target = "lru"
    /\ pc[p] = "mut_held"
    /\ LET s == HashAndShard(loc[p].key)[2]
       IN lru_lock' = [lru_lock EXCEPT ![s] = ReleaseWrite(@)]
    /\ pc' = [pc EXCEPT ![p] = "idle"]
    /\ loc' = [loc EXCEPT ![p] = NoLoc]
    /\ UNCHANGED <<target, mapVars, lru_shards, lru_cached, lru_size, clock>>

\* A task calls clear or retain; it then waits for the lock of shard 0.
LruSweepCall(p) ==
    /\ target \in {"lru", "lru_trip", "lru_cancel"}
    /\ pc[p] = "idle"
    /\ \E op \in {"clear", "retain"}, keep \in SUBSET InKeys :
          /\ (op = "clear") => (keep = {})
          /\ pc' = [pc EXCEPT ![p] = op]
          /\ loc' = [loc EXCEPT ![p] = [NoLoc EXCEPT !.op = op, !.keep = keep, !.pre = Pre]]
    /\ UNCHANGED <<target, mapVars, lruVars>>

\* One iteration of clear or retain: lock shard i, sweep it, fix size, unlock.
LruSweep(p) ==
    /\ target \in {"lru", "lru_trip", "lru_cancel"}
    /\ pc[p] \in {"clear", "retain"}
    /\ LET s == loc[p].i
           r == IF pc[p] = "clear" THEN DoLruClear(lru_shards[s], lru_size)
                ELSE DoLruRetain(lru_shards[s], lru_size, loc[p].keep)
       IN /\ CanWrite(lru_lock[s])
          /\ lru_shards' = [lru_shards EXCEPT ![s] = r.shard]
          /\ lru_size' = r.size
          /\ IF s + 1 < ShardCount
             THEN /\ loc' = [loc EXCEPT ![p] = [@ EXCEPT !.i = s + 1, !.log = @ \o r.calls]]
                  /\ UNCHANGED pc
             ELSE Done(p, [loc[p] EXCEPT !.log = @ \o r.calls])
    /\ UNCHANGED <<target, mapVars, lru_cached, lru_lock, clock>>

\* ------------------------------------------------------------ LruCache: evict
\* LruCache::non_empty_shards: the shards whose cached length is not 0, in order.
RECURSIVE NonEmptyFrom(_, _)
NonEmptyFrom(cached, s) ==
    IF s >= ShardCount THEN <<>>
    ELSE (IF cached[s] # 0 THEN <<s>> ELSE <<>>) \o NonEmptyFrom(cached, s + 1)

\* A mutant: the snapshot lists every non-empty shard twice.
NonEmptyShardsTwice(cached) == NonEmptyFrom(cached, 0) \o NonEmptyFrom(cached, 0)

NonEmptyShards(cached) == NonEmptyFrom(cached, 0)

\* A mutant: the two indices are drawn independently and may be equal.
PickIndicesMayRepeat(len) == (0 .. len - 1) \X (0 .. len - 1)

\* pick_indices, for len > 0 (len = 0 panics): the pairs it may return.
PickIndices(len) ==
    IF len = 1 THEN {<<0, 0>>}
    ELSE IF len = 2 THEN {<<0, 1>>}
    ELSE {pr \in (0 .. len - 1) \X (0 .. len - 1) : pr[1] # pr[2]}

\* A mutant: the later of the two stamps counts as before.
IsAfter(ta, tb) == ta > tb

\* AtomicInstant::is_before
IsBefore(ta, tb) == ta < tb

\* A mutant: evict_many's closure answers Once one call early.
AnswersOnceEarly(op, cnt) ==
    IF op = "evict_many" THEN {IF cnt - 2 <= 0 THEN "Once" ELSE "Continue"}
    ELSE IF op = "evict_one" THEN {"Once"}
    ELSE {"Continue", "Once", "None"}

\* What the predicate answers, cnt being evict_many's cur before the call:
\* evict_many counts cur down and answers Once at 0, evict_one answers Once,
\* the predicate of a caller of evict anything.
Answers(op, cnt) ==
    IF op = "evict_many" THEN {IF cnt - 1 = 0 THEN "Once" ELSE "Continue"}
    ELSE IF op = "evict_one" THEN {"Once"}
    ELSE {"Continue", "Once", "None"}

\* A mutant: the candidate is removed whatever the predicate answered.
EvictsAnyAnswer(ans) == TRUE

Evicts(ans) == ans \in {"Continue", "Once"}

Stops(ans) == ans \in {"Once", "None"}

\* What a step of evict draws from the population pop (the buckets of the
\* locked shard, or of shard_a followed by shard_b) with the pair `pick`: the
\* two buckets sampled and the one presented to the predicate, with the number
\* of shards locked and of snapshot shards left.  Kept by the workload that
\* watches the sampling.
Sampled(pop, pick, locked, left) ==
    IF target # "sample" THEN <<>>
    ELSE [n |-> Len(pop), locked |-> locked, left |-> left,
          a |-> pop[pick[1] + 1], b |-> pop[pick[2] + 1],
          cand |-> IF IsBefore(pop[pick[1] + 1].ts, pop[pick[2] + 1].ts)
                   THEN pop[pick[1] + 1] ELSE pop[pick[2] + 1]]

\* The single-shard case of evict on the locked shard sh, with the pair drawn
\* and the predicate's answer: the shard, size and what is pushed on evicted.
DoEvictSingle(sh, size, pick, ans) ==
    IF ShardLen(sh) = 1
    THEN IF Evicts(ans)
         THEN [shard |-> [indices |-> {}, entries |-> Front(sh.entries)],
               size |-> size - 1,
               ev |-> <<<<Last(sh.entries).key, Last(sh.entries).value>>>>]
         ELSE [shard |-> sh, size |-> size, ev |-> <<>>]
    ELSE LET idx == IF IsBefore(sh.entries[pick[1] + 1].ts, sh.entries[pick[2] + 1].ts)
                    THEN pick[1] ELSE pick[2]
             r == SwapRemoveIndexRaw(sh, idx)
         IN IF Evicts(ans)
            THEN [shard |-> r.shard, size |-> size - 1,
                  ev |-> <<<<r.bucket.key, r.bucket.value>>>>]
            ELSE [shard |-> sh, size |-> size, ev |-> <<>>]

\* The two-shard case of evict on the locked shards sa and sb.
DoEvictTwo(sa, sb, size, pick, ans) ==
    LET la == ShardLen(sa)
        tsOf(i) == IF i < la THEN sa.entries[i + 1].ts ELSE sb.entries[i - la + 1].ts
        e == IF IsBefore(tsOf(pick[1]), tsOf(pick[2])) THEN pick[1] ELSE pick[2]
        ra == SwapRemoveIndexRaw(sa, e)
        rb == SwapRemoveIndexRaw(sb, e - la)
    IN IF ~Evicts(ans) THEN [a |-> sa, b |-> sb, size |-> size, ev |-> <<>>]
       ELSE IF e < la
            THEN [a |-> ra.shard, b |-> sb, size |-> size - 1,
                  ev |-> <<<<ra.bucket.key, ra.bucket.value>>>>]
            ELSE [a |-> sa, b |-> rb.shard, size |-> size - 1,
                  ev |-> <<<<rb.bucket.key, rb.bucket.value>>>>]

\* The key of the entry whose timestamp is strictly greater than every other
\* entry's, in a cache of at least two entries; 0 when there is no such entry.
Freshest(shards) ==
    LET bs == UNION {Range(shards[s].entries) : s \in Shards}
        top == {b \in bs : \A c \in bs \ {b} : c.ts < b.ts}
    IN IF Cardinality(bs) >= 2 /\ top # {} THEN (CHOOSE b \in top : TRUE).key ELSE 0

\* A task calls evict, evict_one or evict_many(k); evict_many returns at once
\* when min(k, size) is 0.
EvictCall(p) ==
    /\ OnLru
    /\ pc[p] = "idle"
    /\ \E op \in {"evict", "evict_one", "evict_many"}, k \in InCounts :
          LET count == IF k < lru_size THEN k ELSE lru_size
              l == [NoLoc EXCEPT !.op = op, !.val = k, !.cnt = count, !.size0 = lru_size,
                                 !.fresh = Freshest(lru_shards), !.pre = Pre]
          IN /\ (op # "evict_many") => (k = 0)
             /\ IF op = "evict_many" /\ count = 0
                THEN Done(p, l)
                ELSE /\ pc' = [pc EXCEPT ![p] = "ev_loop"]
                     /\ loc' = [loc EXCEPT ![p] = l]
    /\ UNCHANGED <<target, mapVars, lruVars>>

\* 'evict: while self.size() > 0 { snapshot the non-empty shards and shuffle }
EvLoop(p) ==
    /\ pc[p] = "ev_loop"
    /\ IF lru_size = 0
       THEN Done(p, loc[p])
       ELSE \E order \in SeqPerms(loc[p].ne \o NonEmptyShards(lru_cached)) :
               /\ pc' = [pc EXCEPT ![p] = "ev_pop"]
               /\ loc' = [loc EXCEPT ![p] = [@ EXCEPT !.ne = order, !.slot = "A"]]
    /\ UNCHANGED <<target, mapVars, lruVars>>

\* pop_shard!() finds non_empty exhausted.  For shard_a: continue 'evict.  For
\* shard_b: the single-shard case.  For the replacement of an emptied shard_a:
\* break 'walk, which drops shard_a.
EvPopNone(p) ==
    /\ pc[p] = "ev_pop"
    /\ loc[p].ne = <<>>
    /\ IF loc[p].slot = "A"
       THEN /\ pc' = [pc EXCEPT ![p] = "ev_loop"]
            /\ UNCHANGED <<loc, lru_lock>>
       ELSE IF loc[p].slot = "B"
            THEN /\ pc' = [pc EXCEPT ![p] = "ev_single"]
                 /\ UNCHANGED <<loc, lru_lock>>
            ELSE /\ pc' = [pc EXCEPT ![p] = "ev_loop"]
                 /\ lru_lock' = [lru_lock EXCEPT ![loc[p].a] = ReleaseWrite(@)]
                 /\ loc' = [loc EXCEPT ![p] = [@ EXCEPT !.a = -1]]
    /\ UNCHANGED <<target, mapVars, lru_shards, lru_cached, lru_size, clock>>

\* pop_shard!() pops the last shard of non_empty and takes its write lock.
EvPopLock(p) ==
    /\ pc[p] = "ev_pop"
    /\ loc[p].ne # <<>>
    /\ LET s == Last(loc[p].ne)
       IN /\ CanWrite(lru_lock[s])
          /\ lru_lock' = [lru_lock EXCEPT ![s] = AcquireWrite(@, p)]
          /\ loc' = [loc EXCEPT ![p] = [@ EXCEPT !.ne = Front(@), !.cur = s]]
    /\ pc' = [pc EXCEPT ![p] = "ev_check"]
    /\ UNCHANGED <<target, mapVars, lru_shards, lru_cached, lru_size, clock>>

\* A mutant: the guard of a shard found empty is kept.
PopShardKeepEmpty(lock, p, s, len, slot, a) ==
    IF len > 0 /\ slot = "C" THEN [lock EXCEPT ![a] = ReleaseWrite(@)] ELSE lock

\* A mutant: the walk never drops the guard of the shard_a it replaces.
PopShardKeepFormer(lock, p, s, len, slot, a) ==
    IF len = 0 THEN [lock EXCEPT ![s] = ReleaseWrite(@)] ELSE lock

\* pop_shard!(), once the lock is held: the locks after the length check.  An
\* empty shard's guard is dropped; a non-empty one that replaces shard_a drops
\* the old shard_a's guard.
PopShardLocks(lock, p, s, len, slot, a) ==
    IF len = 0 THEN [lock EXCEPT ![s] = ReleaseWrite(@)]
    ELSE IF slot = "C" THEN [lock EXCEPT ![a] = ReleaseWrite(@)]
    ELSE lock

EvCheck(p) ==
    /\ pc[p] = "ev_check"
    /\ LET s == loc[p].cur
           len == ShardLen(lru_shards[s])
       IN /\ lru_lock' = PopShardLocks(lru_lock, p, s, len, loc[p].slot, loc[p].a)
          /\ IF len = 0
             THEN /\ pc' = [pc EXCEPT ![p] = "ev_pop"]
                  /\ loc' = [loc EXCEPT ![p] = [@ EXCEPT !.cur = -1]]
             ELSE IF loc[p].slot = "B"
                  THEN /\ pc' = [pc EXCEPT ![p] = "ev_two"]
                       /\ loc' = [loc EXCEPT ![p] = [@ EXCEPT !.b = s, !.cur = -1]]
                  ELSE /\ pc' = [pc EXCEPT ![p] = "ev_pop"]
                       /\ loc' = [loc EXCEPT ![p] = [@ EXCEPT !.a = s, !.cur = -1,
                                                               !.slot = "B"]]
    /\ UNCHANGED <<target, mapVars, lru_shards, lru_cached, lru_size, clock>>

\* The single-shard case; then break 'evict or continue 'evict, either of
\* which drops shard_a.
EvSingle(p) ==
    /\ pc[p] = "ev_single"
    /\ LET a == loc[p].a
           sh == lru_shards[a]
       IN \E pick \in PickIndices(ShardLen(sh)), ans \in Answers(loc[p].op, loc[p].cnt) :
             LET r == DoEvictSingle(sh, lru_size, pick, ans)
                 l == [loc[p] EXCEPT !.evicted = @ \o r.ev, !.cnt = @ - 1, !.a = -1,
                                     !.ans = ans, !.sample = Sampled(sh.entries, pick, 1,
                                                        Len(loc[p].ne))]
             IN /\ lru_shards' = [lru_shards EXCEPT ![a] = r.shard]
                /\ lru_size' = r.size
                /\ lru_lock' = [lru_lock EXCEPT ![a] = ReleaseWrite(@)]
                /\ IF Stops(ans)
                   THEN Done(p, l)
                   ELSE /\ pc' = [pc EXCEPT ![p] = "ev_loop"]
                        /\ loc' = [loc EXCEPT ![p] = l]
    /\ UNCHANGED <<target, mapVars, lru_cached, clock>>

\* The two-shard case; then break 'evict, or the walk step shard_a = shard_b,
\* which drops the former shard_a, and the check whether the new one is empty.
EvTwo(p) ==
    /\ pc[p] = "ev_two"
    /\ LET a == loc[p].a
           b == loc[p].b
       IN \E pick \in PickIndices(ShardLen(lru_shards[a]) + ShardLen(lru_shards[b])),
             ans \in Answers(loc[p].op, loc[p].cnt) :
             LET r == DoEvictTwo(lru_shards[a], lru_shards[b], lru_size, pick, ans)
                 l == [loc[p] EXCEPT !.evicted = @ \o r.ev, !.cnt = @ - 1, !.ans = ans,
                                     !.sample = Sampled(lru_shards[a].entries
                                                           \o lru_shards[b].entries, pick,
                                                        2, Len(loc[p].ne))]
             IN /\ lru_shards' = [lru_shards EXCEPT ![a] = r.a, ![b] = r.b]
                /\ lru_size' = r.size
                /\ IF Stops(ans)
                   THEN /\ lru_lock' = [lru_lock EXCEPT ![a] = ReleaseWrite(@),
                                                         ![b] = ReleaseWrite(@)]
                        /\ Done(p, [l EXCEPT !.a = -1, !.b = -1])
                   ELSE /\ lru_lock' = [lru_lock EXCEPT ![a] = ReleaseWrite(@)]
                        /\ pc' = [pc EXCEPT ![p] = "ev_pop"]
                        /\ loc' = [loc EXCEPT ![p] =
                              [l EXCEPT !.a = b, !.b = -1,
                                        !.slot = IF ShardLen(r.b) = 0 THEN "C" ELSE "B"]]
    /\ UNCHANGED <<target, mapVars, lru_cached, clock>>

EvictStep(p) ==
    \/ EvictCall(p)
    \/ EvLoop(p)
    \/ EvPopNone(p)
    \/ EvPopLock(p)
    \/ EvCheck(p)
    \/ EvSingle(p)
    \/ EvTwo(p)

\* ------------------------------------------------------------ LruCache: evict_many_fast
\* proportion_of(size, len, count)
ProportionOf(size, len, count) == ((count * len) \div size) + 1

\* The quota of a locked, non-empty shard: sum is the accumulated quota
\* before it; the result is [sum, sub] after the correction.
Quota(size, len, count, sum) ==
    LET sub == ProportionOf(size, len, count)
    IN [sum |-> sum + sub,
        sub |-> IF sum + sub > count THEN sum + sub - count - 1 ELSE sub]

\* The buckets of the drain(..) of the fast path, as (key, value) pairs.
Drained(entries) == [i \in 1 .. Len(entries) |-> <<entries[i].key, entries[i].value>>]

\* One sampled eviction inside the locked shard.
DoFastEvictOne(sh, size, pick) ==
    LET idx == IF IsBefore(sh.entries[pick[1] + 1].ts, sh.entries[pick[2] + 1].ts)
               THEN pick[1] ELSE pick[2]
        r == SwapRemoveIndexRaw(sh, idx)
    IN [shard |-> r.shard, size |-> size - 1, ev |-> <<<<r.bucket.key, r.bucket.value>>>>]

\* A task calls evict_many_fast(k): count, the shuffled snapshot and size are
\* taken before the first lock is waited for.
FastCall(p) ==
    /\ target \in {"lru", "fill", "lru_cancel"}
    /\ pc[p] = "idle"
    /\ \E k \in InCounts :
          LET count == IF k < lru_size THEN k ELSE lru_size
              l == [NoLoc EXCEPT !.op = "evict_many_fast", !.val = k, !.cnt = count,
                                 !.size0 = lru_size, !.pre = Pre]
          IN IF count = 0
             THEN Done(p, l)
             ELSE \E order \in SeqPerms(NonEmptyShards(lru_cached)) :
                     /\ pc' = [pc EXCEPT ![p] = "emf_next"]
                     /\ loc' = [loc EXCEPT ![p] = [l EXCEPT !.ne = order]]
    /\ UNCHANGED <<target, mapVars, lruVars>>

\* `for shard in non_empty`: when the snapshot is used up evicted is returned.
\* Otherwise the next shard is locked and its quota computed; a quota equal to
\* the length drains the shard, a quota of 0 leaves it alone, any other is
\* evicted one sampled bucket at a time.  acq lists the shards whose write lock
\* the call has taken.
FastLock(p) ==
    /\ pc[p] = "emf_next"
    /\ IF loc[p].ne = <<>>
       THEN /\ Done(p, loc[p])
            /\ UNCHANGED <<lru_shards, lru_size, lru_lock>>
       ELSE
       LET s == Head(loc[p].ne)
           sh == lru_shards[s]
           len == ShardLen(sh)
           q == Quota(loc[p].size0, len, loc[p].cnt, loc[p].sum)
           l == [loc[p] EXCEPT !.ne = Tail(@), !.acq = Append(@, s)]
       IN /\ CanWrite(lru_lock[s])
          /\ IF len = 0
             THEN /\ loc' = [loc EXCEPT ![p] = l]
                  /\ UNCHANGED <<pc, lru_shards, lru_size, lru_lock>>
             ELSE IF q.sub = len
                  THEN /\ lru_shards' = [lru_shards EXCEPT ![s] = ShardClear(sh)]
                       /\ lru_size' = lru_size - q.sub
                       /\ UNCHANGED lru_lock
                       /\ LET l2 == [l EXCEPT !.sum = q.sum, !.sub = 0,
                                               !.evicted = @ \o Drained(sh.entries)]
                          IN IF q.sum > loc[p].cnt
                             THEN Done(p, l2)
                             ELSE /\ loc' = [loc EXCEPT ![p] = l2]
                                  /\ UNCHANGED pc
                  ELSE IF q.sub = 0
                       THEN /\ UNCHANGED <<lru_shards, lru_size, lru_lock>>
                            /\ LET l2 == [l EXCEPT !.sum = q.sum, !.sub = 0]
                               IN IF q.sum > loc[p].cnt
                                  THEN Done(p, l2)
                                  ELSE /\ loc' = [loc EXCEPT ![p] = l2]
                                       /\ UNCHANGED pc
                       ELSE /\ lru_lock' = [lru_lock EXCEPT ![s] = AcquireWrite(@, p)]
                            /\ pc' = [pc EXCEPT ![p] = "emf_item"]
                            /\ loc' = [loc EXCEPT ![p] =
                                  [l EXCEPT !.sum = q.sum, !.sub = q.sub, !.cur = s]]
                            /\ UNCHANGED <<lru_shards, lru_size>>
    /\ UNCHANGED <<target, mapVars, lru_cached, clock>>

\* One round of `for _ in 0..sub_count`: pick_indices panics on an empty shard
\* (the unwinding drops the guard); otherwise the older of the pair is evicted.
\* After the last round the guard is dropped and the loop breaks or goes on.
FastItem(p) ==
    /\ pc[p] = "emf_item"
    /\ LET s == loc[p].cur
           sh == lru_shards[s]
       IN IF ShardLen(sh) = 0
          THEN /\ pc' = [pc EXCEPT ![p] = "panic"]
               /\ lru_lock' = [lru_lock EXCEPT ![s] = ReleaseWrite(@)]
               /\ UNCHANGED <<loc, lru_shards, lru_size>>
          ELSE \E pick \in PickIndices(ShardLen(sh)) :
                  LET r == DoFastEvictOne(sh, lru_size, pick)
                      l == [loc[p] EXCEPT !.evicted = @ \o r.ev, !.sub = @ - 1]
                  IN /\ lru_shards' = [lru_shards EXCEPT ![s] = r.shard]
                     /\ lru_size' = r.size
                     /\ IF l.sub > 0
                        THEN /\ loc' = [loc EXCEPT ![p] = l]
                             /\ UNCHANGED <<pc, lru_lock>>
                        ELSE /\ lru_lock' = [lru_lock EXCEPT ![s] = ReleaseWrite(@)]
                             /\ IF l.sum > l.cnt
                                THEN Done(p, [l EXCEPT !.cur = -1])
                                ELSE /\ pc' = [pc EXCEPT ![p] = "emf_next"]
                                     /\ loc' = [loc EXCEPT ![p] = [l EXCEPT !.cur = -1]]
    /\ UNCHANGED <<target, mapVars, lru_cached, clock>>

FastStep(p) ==
    \/ FastCall(p)
    \/ FastLock(p)
    \/ FastItem(p)

LruStep(p) ==
    \/ LruInsert(p)
    \/ LruRemove(p)
    \/ LruGetRaw(p)
    \/ LruGetNow(p)
    \/ LruGetStore(p)
    \/ LruGetMutRaw(p)
    \/ LruHandleWrite(p)
    \/ LruDropRead(p)
    \/ LruDropWrite(p)
    \/ LruSweepCall(p)
    \/ LruSweep(p)

\* ------------------------------------------------------------ specifications
EmptyState ==
    /\ map_shards = [s \in Shards |-> {}]
    /\ map_size = 0
    /\ map_lock = [s \in Shards |-> FreeLock]
    /\ lru_shards = [s \in Shards |-> NewShard]
    /\ lru_cached = [s \in Shards |-> 0]
    /\ lru_size = 0
    /\ lru_lock = [s \in Shards |-> FreeLock]
    /\ clock = 0
    /\ pc = [p \in AllProcs |-> IF p \in Procs THEN "idle" ELSE "off"]
    /\ loc = [p \in AllProcs |-> NoLoc]

InitMap == target = "map" /\ EmptyState

NextMap == \E p \in AllProcs : MapStep(p) \/ Finish(p)

SpecMap == InitMap /\ [][NextMap]_vars

\* One task runs batches on a CHashMap, all insert and remove.
InitBatch == target = "batch" /\ EmptyState

NextBatch == \E p \in AllProcs : BatchStep(p) \/ MapInsert(p) \/ MapRemove(p) \/ Finish(p)

SpecBatch == InitBatch /\ [][NextBatch]_vars

\* One task makes every call of the LruCache, one after another.
InitLru == target = "lru" /\ EmptyState

NextLru == Tick \/ \E p \in AllProcs : LruStep(p) \/ EvictStep(p) \/ FastStep(p) \/ Finish(p)

SpecLru == InitLru /\ [][NextLru]_vars

\* One task inserts, removes and evicts on a cache of WalkShards shards.
InitWalk == target = "walk" /\ EmptyState

NextWalk ==
    Tick \/ \E p \in AllProcs : LruInsert(p) \/ LruRemove(p) \/ EvictStep(p) \/ Finish(p)

SpecWalk == InitWalk /\ [][NextWalk]_vars

\* Two tasks insert and evict concurrently.
InitRace == target = "race" /\ EmptyState

NextRace == \E p \in AllProcs : LruInsert(p) \/ EvictStep(p) \/ Finish(p)

SpecRace == InitRace /\ [][NextRace]_vars

\* Every workload of the calls that maintain the size counters (all but the
\* batches, whose callback edits raw entries).
InitCalls == InitMap \/ InitLru \/ InitWalk \/ InitRace

NextCalls ==
    Tick \/ \E p \in AllProcs :
               MapStep(p) \/ LruStep(p) \/ EvictStep(p) \/ FastStep(p) \/ Finish(p)

SpecCalls == InitCalls /\ [][NextCalls]_vars

\* Two tasks insert into an LruCache and get from it while the clock runs.
InitStamp == target = "stamp" /\ EmptyState

NextStamp ==
    Tick \/ \E p \in AllProcs :
               \/ LruInsert(p) \/ LruGetRaw(p) \/ LruGetNow(p) \/ LruGetStore(p)
               \/ LruDropRead(p) \/ Finish(p)

SpecStamp == InitStamp /\ [][NextStamp]_vars

\* Task 1 duplicates a CHashMap or an LruCache and edits the duplicate while
\* both tasks insert into the original and remove from it.
InitDup == target \in {"map_dup", "lru_dup"} /\ EmptyState

NextDup ==
    Tick \/ \E p \in AllProcs :
               \/ MapInsert(p) \/ MapRemove(p) \/ MapDupCall(p) \/ MapDupShard(p)
               \/ MapDupEdit(p)
               \/ LruInsert(p) \/ LruRemove(p) \/ LruDupCall(p) \/ LruDupShard(p)
               \/ LruDupEdit(p) \/ Finish(p)

SpecDup == InitDup /\ [][NextDup]_vars

\* The cache after one caller has inserted the keys of ks, smallest first, each
\* with value 1 at clock 0.
RECURSIVE Filled(_, _)
Filled(shards, ks) ==
    IF ks = {} THEN shards
    ELSE LET k == CHOOSE x \in ks : \A y \in ks : x <= y
             hs == HashAndShard(k)
             r == DoLruInsert(shards[hs[2]], 0, 0, hs[1], k, 1, 0)
         IN Filled([shards EXCEPT ![hs[2]] = r.shard], ks \ {k})

\* One caller runs evict_many_fast, call after call, on a cache of three
\* shards that holds any of the keys 1 .. FillKeys.
InitFill ==
    /\ target = "fill"
    /\ \E ks \in SUBSET (1 .. FillKeys) :
          /\ lru_shards = Filled([s \in Shards |-> NewShard], ks)
          /\ lru_size = Cardinality(ks)
    /\ lru_cached = [s \in Shards |-> ShardLen(lru_shards[s])]
    /\ map_shards = [s \in Shards |-> {}]
    /\ map_size = 0
    /\ map_lock = [s \in Shards |-> FreeLock]
    /\ lru_lock = [s \in Shards |-> FreeLock]
    /\ clock = 0
    /\ pc = [p \in AllProcs |-> IF p \in Procs THEN "idle" ELSE "off"]
    /\ loc = [p \in AllProcs |-> NoLoc]

NextFill == \E p \in AllProcs : FastStep(p) \/ Finish(p)

SpecFill == InitFill /\ [][NextFill]_vars

\* The future of a call is dropped while it waits for a shard lock (the host
\* scheduler cancels the waiting acquirer): its locals go, the guards among
\* them are released, and nothing more of the call runs.
AwaitsLock(p) ==
    \/ pc[p] \in {"clear", "retain", "batch_lock", "map_dup", "lru_dup"}
    \/ pc[p] \in {"ev_pop", "emf_next"} /\ loc[p].ne # <<>>

\* A mutant: the dropped future keeps its guards.
KeepGuards(lock, p) == lock

DropGuards(lock, p) ==
    [s \in Shards |-> [w |-> IF lock[s].w = p THEN 0 ELSE lock[s].w, r |-> lock[s].r \ {p}]]

Cancel(p) ==
    /\ Cancelling
    /\ AwaitsLock(p)
    /\ map_lock' = DropGuards(map_lock, p)
    /\ lru_lock' = DropGuards(lru_lock, p)
    /\ Done(p, [loc[p] EXCEPT !.cancelled = TRUE])
    /\ UNCHANGED <<target, map_shards, map_size, lru_shards, lru_cached, lru_size, clock>>

\* insert or remove is dropped at its one await, the wait for the key's shard.
CancelAtOnce(p) ==
    /\ Cancelling
    /\ pc[p] = "idle"
    /\ \E op \in {"insert", "remove"}, k \in InKeys :
          Done(p, [NoLoc EXCEPT !.op = op, !.key = k, !.cancelled = TRUE, !.pre = Pre])
    /\ UNCHANGED <<target, mapVars, lruVars>>

\* One caller makes the calls that change a CHashMap or an LruCache; any of
\* them may be dropped at any of its waits for a shard lock.
InitCancel == Cancelling /\ EmptyState

NextCancel ==
    \E p \in AllProcs :
       \/ MapInsert(p) \/ MapRemove(p) \/ MapSweepCall(p) \/ MapSweep(p) \/ BatchStep(p)
       \/ MapDupCall(p) \/ MapDupShard(p)
       \/ LruInsert(p) \/ LruRemove(p) \/ LruSweepCall(p) \/ LruSweep(p)
       \/ EvictStep(p) \/ FastStep(p) \/ LruDupCall(p) \/ LruDupShard(p)
       \/ Cancel(p) \/ CancelAtOnce(p) \/ Finish(p)

SpecCancel == InitCancel /\ [][NextCancel]_vars

\* Every call that changes an LruCache or its cached lengths: one caller making
\* them all, each call running to its end, or two tasks inserting and evicting.
InitCached == target \in {"lru_cancel", "race"} /\ EmptyState

NextCached ==
    \E p \in AllProcs :
       \/ LruInsert(p) \/ LruRemove(p) \/ LruSweepCall(p) \/ LruSweep(p)
       \/ EvictStep(p) \/ FastStep(p) \/ LruDupCall(p) \/ LruDupShard(p) \/ Finish(p)

SpecCached == InitCached /\ [][NextCached]_vars

\* One caller inserts into a cache of WalkShards shards while the clock runs,
\* and evicts; what each step of evict sampled is kept.
InitSample == target = "sample" /\ EmptyState

NextSample == Tick \/ \E p \in AllProcs : LruInsert(p) \/ EvictStep(p) \/ Finish(p)

SpecSample == InitSample /\ [][NextSample]_vars

\* One caller works on a CHashMap or on an LruCache: inserts, removes, sweeps
\* of the cache, and round trips of insert(k, v) followed by remove(k).
InitTrip == target \in {"map_trip", "lru_trip"} /\ EmptyState

NextTrip ==
    \E p \in AllProcs :
        \/ MapInsert(p) \/ MapRemove(p) \/ MapTripInsert(p) \/ MapTripRemove(p)
        \/ LruInsert(p) \/ LruRemove(p) \/ LruTripInsert(p) \/ LruTripRemove(p)
        \/ LruSweepCall(p) \/ LruSweep(p) \/ Finish(p)

SpecTrip == InitTrip /\ [][NextTrip]_vars

\* ------------------------------------------------------------ properties
Min(a, b) == IF a < b THEN a ELSE b

EvictOps == {"evict", "evict_one", "evict_many"}

\* The write guards of cache shards task p holds.
LruHeld(lock, p) == {s \in Shards : lock[s].w = p}

\* C1: whenever no call is in progress, size() equals the sum of the lengths of
\* all shards, for the CHashMap and for the LruCache, whatever calls of insert,
\* remove, get_or_insert, get_mut_or_insert, clear, retain, evict, evict_many,
\* evict_one and evict_many_fast came before.
SizeIsSumOfShards ==
    Quiescent => (map_size = MapLen(map_shards) /\ lru_size = LruLen(lru_shards))

\* A cache at rest that still holds an entry after evict_many_fast took others.
SizeAfterFastEviction ==
    /\ Quiescent
    /\ \E p \in Procs : /\ pc[p] = "done"
                        /\ loc[p].op = "evict_many_fast"
                        /\ Len(loc[p].evicted) = 2
    /\ lru_size = 1

\* C2: with two or more shards non-empty, no reachable state has every evictor
\* blocked waiting for a shard write lock that another evictor holds.
EvictorBlocked(p) ==
    /\ pc[p] = "ev_pop"
    /\ loc[p].op \in EvictOps
    /\ loc[p].ne # <<>>
    /\ \E q \in Procs \ {p} : /\ lru_lock[Last(loc[p].ne)].w = q
                              /\ loc[q].op \in EvictOps

NoEvictorDeadlock ==
    ~ (/\ Cardinality({s \in Shards : ShardLen(lru_shards[s]) > 0}) >= 2
       /\ \A p \in Procs : EvictorBlocked(p))

\* C3: with no concurrent mutation, evict_many(k) returns min(k, size_before)
\* entries, size() afterwards is size_before less the number returned, and no
\* returned key can be looked up any more.
EvictManyExact ==
    \A p \in Procs :
       (pc[p] = "done" /\ loc[p].op = "evict_many") =>
          /\ Len(loc[p].evicted) = Min(loc[p].val, loc[p].size0)
          /\ lru_size = loc[p].size0 - Len(loc[p].evicted)
          /\ \A i \in 1 .. Len(loc[p].evicted) :
                LruLookup(lru_shards, loc[p].evicted[i][1]) = None

\* evict_many(2) has returned two of three stored entries, both from one shard.
EvictManyTookTwoOfThree ==
    \E p \in Procs :
       /\ pc[p] = "done"
       /\ loc[p].op = "evict_many"
       /\ loc[p].val = 2
       /\ loc[p].size0 = 3
       /\ Len(loc[p].evicted) = 2
       /\ HashOf(loc[p].evicted[1][1]) = HashOf(loc[p].evicted[2][1])

\* C4: at every point of an evict call, the waits for the next shard and the
\* discarding of shards found empty included, the evictor holds the write
\* locks of at most two shards.
EvictorHoldsAtMostTwo ==
    \A p \in Procs : loc[p].op \in EvictOps => Cardinality(LruHeld(lru_lock, p)) <= 2

\* The evictor holds shard_a and the guard of a shard it has just found empty,
\* with another shard of the snapshot still to come.
EvictorFindsEmptyHoldingTwo ==
    \E p \in Procs :
       /\ pc[p] = "ev_check"
       /\ loc[p].slot = "B"
       /\ ShardLen(lru_shards[loc[p].cur]) = 0
       /\ Cardinality(LruHeld(lru_lock, p)) = 2
       /\ loc[p].ne # <<>>

\* C5: get_or_insert downgrades atomically.  From the end of its write section
\* until the handle is dropped the task holds a guard of the shard without a
\* gap, no writer holds the shard, the key is stored with the value the write
\* section left, the handle reads that value, and the re-lookup never misses.
InGetOrInsert(p) ==
    /\ loc[p].op = "get_or_insert"
    /\ pc[p] \in {"goi_downgrade", "goi_lookup", "get_held"}

DowngradeIsAtomic ==
    \A p \in Procs :
       /\ pc[p] # "panic"
       /\ InGetOrInsert(p) =>
             LET lock == map_lock[HashAndShard(loc[p].key)[2]]
             IN /\ lock.w = p \/ (lock.w = 0 /\ p \in lock.r)
                /\ loc[p].seen # None
                /\ MapStored(map_shards, loc[p].key) = loc[p].seen
                /\ (pc[p] = "get_held") => (loc[p].res = loc[p].seen)

\* A get_or_insert that inserted holds its read handle while the other task
\* waits to write to the same shard.
HandleHeldWhileWriterWaits ==
    \E p, q \in Procs :
       /\ p # q
       /\ pc[p] = "get_held"
       /\ loc[p].op = "get_or_insert"
       /\ loc[p].calls = 1
       /\ pc[q] = "clear"
       /\ loc[q].i = HashAndShard(loc[p].key)[2]

\* C6: get_or_insert and get_mut_or_insert call the factory once if the key is
\* vacant and not at all if it is present; size grows by one on the vacant
\* path and not on the occupied one; on the occupied path the stored value is
\* unchanged and is the one the handle points at.
FactoryOnceIffVacant ==
    \A p \in Procs :
       loc[p].op \in {"get_or_insert", "get_mut_or_insert"} =>
          /\ (loc[p].was = None) =>
                (loc[p].calls = 1 /\ loc[p].dsize = 1 /\ loc[p].seen = loc[p].val)
          /\ (loc[p].was # None) =>
                (loc[p].calls = 0 /\ loc[p].dsize = 0 /\ loc[p].seen = loc[p].was)
          /\ (pc[p] = "get_held" \/ loc[p].op = "get_mut_or_insert") =>
                (loc[p].res = loc[p].seen)

\* get_mut_or_insert has returned a handle to a value that was already stored
\* and differs from the one its factory would have made.
OccupiedPathTaken ==
    \E p \in Procs :
       /\ pc[p] = "mut_held"
       /\ loc[p].op = "get_mut_or_insert"
       /\ loc[p].was # None
       /\ loc[p].was # loc[p].val

\* C7: during one batch_read or batch_write, whatever the keys, their order and
\* their repetitions, each shard's lock is acquired at most once and the batch
\* never holds the locks of two shards.
BatchLocksOncePerShard ==
    \A p \in Procs :
       loc[p].op \in {"batch_read", "batch_write"} =>
          /\ \A i, j \in 1 .. Len(loc[p].acq) : i # j => loc[p].acq[i] # loc[p].acq[j]
          /\ Cardinality(MapHeld(map_lock, p)) <= 1

\* A batch whose keys alternate between the shards, one of them repeated, has
\* returned after one acquisition per shard.
BatchOfAlternatingKeysDone ==
    \E p \in Procs :
       /\ pc[p] = "done"
       /\ loc[p].op = "batch_write"
       /\ loc[p].keys = <<3, 1, 3>>
       /\ loc[p].acq = <<0, 1>>

\* C8: batch_read and batch_write call the callback exactly once per input key
\* (none for an empty input), each time with that key and the entry, present
\* or absent, found for it in its shard while that shard's guard is held.
CountOf(s, x) == Cardinality({i \in 1 .. Len(s) : s[i] = x})

BatchCallsOncePerKey ==
    \A p \in Procs :
       loc[p].op \in {"batch_read", "batch_write"} =>
          LET called == [i \in 1 .. Len(loc[p].log) |-> loc[p].log[i].key]
          IN /\ Len(loc[p].log) = loc[p].i
             /\ \A k \in Keys : CountOf(called, k) <= CountOf(loc[p].keys, k)
             /\ (pc[p] = "done") =>
                   \A k \in Keys : CountOf(called, k) = CountOf(loc[p].keys, k)
             /\ \A i \in 1 .. Len(loc[p].log) :
                   loc[p].log[i].held /\ loc[p].log[i].got = loc[p].log[i].was

\* A batch over two colliding keys, one given twice, has returned: the callback
\* was given an absent entry for one key while the other was present.
BatchOverCollidingKeysDone ==
    \E p \in Procs :
       /\ pc[p] = "done"
       /\ loc[p].op = "batch_read"
       /\ loc[p].keys = <<2, 1, 2>>
       /\ Len(loc[p].log) = 3
       /\ \E i, j \in 1 .. 3 : /\ loc[p].log[i].key = 1
                               /\ loc[p].log[i].got = None
                               /\ loc[p].log[j].key = 2
                               /\ loc[p].log[j].got # None

\* C9: CHashMap::contains(key) is exact containment: it returns true if and
\* only if a key equal to `key` is stored, so false for an absent key even
\* when a stored key has the same hash.
ContainsIsExact ==
    \A p \in Procs :
       (pc[p] = "done" /\ loc[p].op = "contains") =>
          ((loc[p].res = 1) <=> (loc[p].was # None))

\* C10: two distinct keys with equal hashes in one shard are each looked up
\* with their own value, and a step that removes or evicts one of them (the
\* swap-remove that moves the other into the freed slot included) leaves the
\* other stored and looked up with the value it had.
Colliding == {pr \in Keys \X Keys : pr[1] # pr[2] /\ HashOf(pr[1]) = HashOf(pr[2])}

MapLookup(shards, key) ==
    LET hs == HashAndShard(key) IN DoMapGet(shards[hs[2]], hs[1], key)

LookupsExact ==
    \A pr \in Colliding :
       /\ MapLookup(map_shards, pr[1]) = MapStored(map_shards, pr[1])
       /\ LruLookup(lru_shards, pr[1]) = LruStoredValue(lru_shards, pr[1])

OtherSurvives ==
    \A pr \in Colliding :
       /\ (/\ MapStored(map_shards, pr[1]) # None
           /\ MapStored(map_shards, pr[2]) # None
           /\ MapStored(map_shards', pr[1]) = None
           /\ MapLen(map_shards') = MapLen(map_shards) - 1)
          => MapLookup(map_shards', pr[2]) = MapStored(map_shards, pr[2])
       /\ (/\ LruStoredValue(lru_shards, pr[1]) # None
           /\ LruStoredValue(lru_shards, pr[2]) # None
           /\ LruStoredValue(lru_shards', pr[1]) = None
           /\ LruLen(lru_shards') = LruLen(lru_shards) - 1)
          => LruLookup(lru_shards', pr[2]) = LruStoredValue(lru_shards, pr[2])

CollidingKeysKeepApart == []LookupsExact /\ [][OtherSurvives]_vars

\* remove has taken a colliding key out of slot 0, so that the swap-remove
\* moved the other key's bucket into that slot, where it is still looked up.
OtherMovedIntoFreedSlot ==
    \E p \in Procs, pr \in Colliding :
       /\ pc[p] = "done"
       /\ loc[p].op = "remove"
       /\ loc[p].key = pr[1]
       /\ loc[p].res # None
       /\ loc[p].i = 0
       /\ target = "lru"
       /\ ShardLen(lru_shards[HashAndShard(pr[2])[2]]) = 1
       /\ LruLookup(lru_shards, pr[2]) # None

\* C11: the round trip insert(k, v); remove(k) by one caller returns Some(v);
\* it leaves size as it was before the insert when k was not stored then, and
\* one lower when k was stored.  A remove of a key that is not stored returns
\* None and changes no shard, no size and no cached per-shard length.
RoundTripReturnsValue ==
    \A p \in Procs :
        (pc[p] = "done" /\ loc[p].op \in {"map_trip", "lru_trip"}) =>
            /\ loc[p].res = loc[p].val
            /\ loc[p].dsize = IF loc[p].was = None THEN 0 ELSE -1

AbsentRemoveChangesNothing ==
    \A p \in Procs :
        (pc[p] = "idle" /\ pc'[p] = "done" /\ loc'[p].op = "remove"
            /\ loc'[p].was = None) =>
            /\ loc'[p].res = None
            /\ UNCHANGED <<map_shards, map_size, lru_shards, lru_size, lru_cached>>

InsertRemoveRoundTrip == []RoundTripReturnsValue /\ [][AbsentRemoveChangesNothing]_vars

\* C11 as stated: the round trip restores the size whatever was stored before.
RoundTripRestoresSize ==
    \A p \in Procs :
        (pc[p] = "done" /\ loc[p].op \in {"map_trip", "lru_trip"}) =>
            loc[p].res = loc[p].val /\ loc[p].dsize = 0

\* A round trip over a key that was not stored, on a cache that holds other
\* entries and whose cached length is stale, has returned.
RoundTripOverVacantKeyDone ==
    \E p \in Procs :
        /\ pc[p] = "done" /\ loc[p].op = "lru_trip"
        /\ loc[p].was = None /\ loc[p].size0 > 0
        /\ \E s \in Shards : lru_cached[s] # ShardLen(lru_shards[s])

\* C12: an insert of a key that is stored returns the stored value, stores the
\* new one, and leaves size, the number of entries and (LruCache) the cached
\* per-shard lengths as they were; an insert of a key that is not stored
\* returns None, adds one entry and raises size by exactly one.
InsertStep ==
    \A p \in Procs :
        (pc[p] = "idle" /\ pc'[p] = "done" /\ loc'[p].op = "insert") =>
            LET k == loc'[p].key
                v == loc'[p].val
            IN IF target = "map"
               THEN LET old == MapStored(map_shards, k)
                    IN /\ loc'[p].res = old
                       /\ MapStored(map_shards', k) = v
                       /\ IF old # None
                          THEN /\ map_size' = map_size
                               /\ MapLen(map_shards') = MapLen(map_shards)
                          ELSE /\ map_size' = map_size + 1
                               /\ MapLen(map_shards') = MapLen(map_shards) + 1
               ELSE LET old == LruStoredValue(lru_shards, k)
                    IN /\ loc'[p].res = old
                       /\ LruStoredValue(lru_shards', k) = v
                       /\ IF old # None
                          THEN /\ lru_size' = lru_size
                               /\ \A s \in Shards :
                                     ShardLen(lru_shards'[s]) = ShardLen(lru_shards[s])
                               /\ lru_cached' = lru_cached
                          ELSE /\ lru_size' = lru_size + 1
                               /\ LruLen(lru_shards') = LruLen(lru_shards) + 1

InsertCountsOnlyVacant == [][InsertStep]_vars

\* An insert over a stored key has returned the value it replaced, on a cache
\* whose cached length is stale.
OccupiedInsertDone ==
    \E p \in Procs :
        /\ target = "lru" /\ pc[p] = "done" /\ loc[p].op = "insert"
        /\ loc[p].was # None /\ loc[p].was # loc[p].val /\ loc[p].res = loc[p].was
        /\ \E s \in Shards : lru_cached[s] # ShardLen(lru_shards[s])

\* C13: every call of evict's predicate is honoured.  On Continue or Once the
\* candidate, and nothing else, leaves the cache and is appended to the
\* result; on None nothing changes.  After Once or None evict returns, so the
\* predicate is not called again; after Continue it goes on.  No other step
\* of evict changes the entries or size, so an evict whose first answer is
\* None returns the empty list with keys and size as they were.
LruEntries(shards) ==
    {<<b.key, b.value>> : b \in UNION {Range(shards[s].entries) : s \in Shards}}

PredicateStep(p) == pc[p] \in {"ev_single", "ev_two"} /\ loc'[p] # loc[p]

PredicateHonoured ==
    \A p \in Procs :
        IF PredicateStep(p)
        THEN LET ans == loc'[p].ans
                 gone == LruEntries(lru_shards) \ LruEntries(lru_shards')
             IN /\ ans \in {"Continue", "Once", "None"}
                /\ LruEntries(lru_shards') \subseteq LruEntries(lru_shards)
                /\ IF ans = "None"
                   THEN /\ gone = {}
                        /\ loc'[p].evicted = loc[p].evicted
                        /\ lru_size' = lru_size
                   ELSE /\ Cardinality(gone) = 1
                        /\ loc'[p].evicted = loc[p].evicted \o <<CHOOSE e \in gone : TRUE>>
                        /\ lru_size' = lru_size - 1
                /\ (pc'[p] = "done") <=> (ans \in {"Once", "None"})
        ELSE (loc[p].op \in {"evict", "evict_one", "evict_many"} /\ pc[p] # "done"
                 /\ <<pc'[p], loc'[p]>> # <<pc[p], loc[p]>>) =>
                 /\ lru_shards' = lru_shards /\ lru_size' = lru_size
                 /\ loc'[p].evicted = loc[p].evicted

FirstNoneReturnsEmpty ==
    \A p \in Procs :
        (pc[p] = "done" /\ loc[p].op = "evict" /\ loc[p].ans = "None"
            /\ loc[p].cnt = -1) => loc[p].evicted = <<>>

EvictHonoursPredicate == []FirstNoneReturnsEmpty /\ [][PredicateHonoured]_vars

\* An evict has returned after Continue, Continue, None: two entries evicted,
\* the third candidate still stored.
EvictStoppedByNone ==
    \E p \in Procs :
        /\ pc[p] = "done" /\ loc[p].op = "evict" /\ loc[p].ans = "None"
        /\ Len(loc[p].evicted) = 2 /\ lru_size > 0

\* C14: when the cache holds at least two entries and one of them has a
\* timestamp strictly greater than every other, evict_one and
\* evict_many(1, rng) called by the one caller do not evict that entry,
\* whatever the shuffles and the indices drawn, and however the entries are
\* spread over the shards.
EvictedKeys(p) == {loc[p].evicted[i][1] : i \in 1 .. Len(loc[p].evicted)}

FreshestSurvivesOneEviction ==
    \A p \in Procs :
        (/\ OneCaller
         /\ loc[p].op = "evict_one" \/ (loc[p].op = "evict_many" /\ loc[p].val = 1)
         /\ loc[p].fresh # 0) =>
            /\ loc[p].fresh \notin EvictedKeys(p)
            /\ LruStored(lru_shards, loc[p].fresh) # NoBucket

\* evict_one has evicted one of three entries that lay in three shards, and
\* the entry that was the freshest is still stored.
OlderEntryEvictedAcrossShards ==
    \E p \in Procs :
        /\ target = "walk" /\ pc[p] = "done" /\ loc[p].op = "evict_one"
        /\ loc[p].fresh # 0 /\ Len(loc[p].evicted) = 1
        /\ \A s \in Shards : s > 0 => ShardLen(lru_shards[s]) = 1
        /\ ShardLen(lru_shards[0]) = 0
        /\ LruStored(lru_shards, loc[p].fresh) # NoBucket

\* C15: while a task holds the handle a get(k) that hit has returned, k's
\* timestamp is at least the timestamp of every stored entry that no call has
\* touched since that get began.
GetLeavesKeyFreshest ==
    \A p \in Procs :
        (pc[p] = "get_held" /\ loc[p].op = "get") =>
            \A j \in loc[p].since \cap LruKeys(lru_shards) :
                LruStored(lru_shards, loc[p].key).ts >= LruStored(lru_shards, j).ts

\* C16: peek and peek_mut change no shard (so no timestamp) and no size; get
\* and get_mut on a stored key set that key's timestamp to the clock reading
\* the call took and change nothing else: no other timestamp, no value, no
\* key, no size.
StampedOnly(shards, key, t) ==
    [s \in Shards |->
        [indices |-> shards[s].indices,
         entries |-> [i \in 1 .. Len(shards[s].entries) |->
                        IF shards[s].entries[i].key = key
                        THEN [shards[s].entries[i] EXCEPT !.ts = t]
                        ELSE shards[s].entries[i]]]]

LookupStep ==
    \A p \in Procs :
        /\ (pc[p] = "idle" /\ loc'[p].op \in {"peek", "peek_mut", "get"}) =>
               lru_shards' = lru_shards /\ lru_size' = lru_size
        /\ (pc[p] = "get_now" /\ pc'[p] # "get_now") =>
               /\ lru_shards' = lru_shards /\ lru_size' = lru_size
               /\ loc'[p].t = clock
        /\ (pc[p] = "get_store" /\ pc'[p] # "get_store") =>
               /\ \A s \in Shards : lru_shards'[s] = StampedOnly(lru_shards, loc[p].key, loc[p].t)[s]
               /\ LruStored(lru_shards', loc[p].key).ts = loc[p].t
               /\ lru_size' = lru_size
        /\ (pc[p] = "idle" /\ loc'[p].op = "get_mut") =>
               /\ \A s \in Shards : lru_shards'[s] = StampedOnly(lru_shards, loc'[p].key, clock)[s]
               /\ loc'[p].was # None => LruStored(lru_shards', loc'[p].key).ts = clock
               /\ lru_size' = lru_size

OnlyGetRefreshesItsKey == [][LookupStep]_vars

\* A get has stamped its key with a later reading while the other entry of
\* the same shard kept its older stamp.
GetRefreshedOneOfTwo ==
    \E p \in Procs :
        /\ pc[p] = "get_held" /\ loc[p].op = "get" /\ loc[p].t = 1
        /\ LruStored(lru_shards, loc[p].key).ts = 1
        /\ \E s \in Shards :
              /\ ShardLen(lru_shards[s]) = 2
              /\ \E i \in 1 .. 2 : /\ lru_shards[s].entries[i].key = loc[p].key
                                   /\ lru_shards[s].entries[3 - i].ts = 0

\* C17: each shard of the container duplicate() returns holds the key -> value
\* relation the original's shard had at the step that read-locked it; the
\* duplicate's size is the sum of its own shard lengths, when returned and
\* after any edits of it; no step changes both the original and a duplicate.
MapRelation(shard) == {<<e.key, e.value>> : e \in shard}

LruRelation(sh) == {<<b.key, b.value>> : b \in Range(sh.entries)}

DupLen(p) ==
    IF target = "map_dup"
    THEN SetSum([i \in 1 .. Len(loc[p].dup) |-> Cardinality(loc[p].dup[i])],
                1 .. Len(loc[p].dup))
    ELSE SetSum([i \in 1 .. Len(loc[p].dup) |-> ShardLen(loc[p].dup[i])],
                1 .. Len(loc[p].dup))

DuplicateCountsItsOwn ==
    \A p \in Procs :
        (pc[p] = "done" /\ loc[p].op = "duplicate") =>
            /\ Len(loc[p].dup) = ShardCount
            /\ loc[p].sum = DupLen(p)

DuplicateStep ==
    \A p \in Procs :
        /\ (pc[p] = "map_dup" /\ loc'[p] # loc[p]) =>
               /\ Len(loc'[p].dup) = loc[p].i + 1
               /\ MapRelation(loc'[p].dup[loc[p].i + 1]) = MapRelation(map_shards[loc[p].i])
               /\ \A i \in 1 .. loc[p].i : loc'[p].dup[i] = loc[p].dup[i]
        /\ (pc[p] = "lru_dup" /\ loc'[p] # loc[p]) =>
               /\ Len(loc'[p].dup) = loc[p].i + 1
               /\ LruRelation(loc'[p].dup[loc[p].i + 1]) = LruRelation(lru_shards[loc[p].i])
               /\ \A i \in 1 .. loc[p].i : loc'[p].dup[i] = loc[p].dup[i]
        /\ (<<map_shards, map_size, lru_shards, lru_size, lru_cached>>'
                # <<map_shards, map_size, lru_shards, lru_size, lru_cached>>) =>
               /\ loc'[p].dup = loc[p].dup /\ loc'[p].sum = loc[p].sum
               /\ loc'[p].dcached = loc[p].dcached

RetainStep ==
    \A p \in Procs :
        (pc[p] = "retain" /\ loc'[p] # loc[p]) =>
            LET s == loc[p].i
                before == lru_shards[s]
                after == lru_shards'[s]
                calls == SubSeq(loc'[p].log, Len(loc[p].log) + 1, Len(loc'[p].log))
                resident == {b.key : b \in Range(before.entries)}
            IN /\ Len(calls) = ShardLen(before)
               /\ Range(calls) = resident
               /\ Range(after.entries) =
                     {b \in Range(before.entries) : b.key \in loc[p].keep}
               /\ ShardLen(after) = Cardinality(resident \cap loc[p].keep)
               /\ \A k \in Keys :
                     ShardGet(after, HashOf(k), k).value =
                        IF k \in resident \cap loc[p].keep
                        THEN ShardGet(before, HashOf(k), k).value ELSE None
               /\ lru_size' = lru_size - (ShardLen(before) - ShardLen(after))
               /\ \A t \in Shards \ {s} : lru_shards'[t] = lru_shards[t]

RetainCallsOncePerEntry == [][RetainStep]_vars

\* A retain has removed the entry in slot 0 of a shard of two and kept the
\* other, which swap-remove had moved into slot 0 before the predicate saw it.
RetainKeptMovedEntry ==
    \E p \in Procs :
        /\ target = "lru" /\ pc[p] = "done" /\ loc[p].op = "retain"
        /\ Len(loc[p].log) = 2
        /\ loc[p].log[1] \notin loc[p].keep /\ loc[p].log[2] \in loc[p].keep
        /\ HashAndShard(loc[p].log[1])[2] = HashAndShard(loc[p].log[2])[2]
        /\ LruLookup(lru_shards, loc[p].log[2]) # None

\* C19: a step of evict, evict_many, evict_one or evict_many_fast that removes
\* entries from a shard updates that shard's cached length: it goes down by
\* the number of entries removed, or is set to the shard's length after the
\* removal.
EvictionStep ==
    \A p \in Procs : \A s \in Shards :
        LET gone == ShardLen(lru_shards[s]) - ShardLen(lru_shards'[s])
        IN (/\ loc[p].op \in EvictOps \cup {"evict_many_fast"}
            /\ pc[p] \notin {"idle", "done"}
            /\ loc'[p] # loc[p]
            /\ gone > 0) =>
               \/ lru_cached'[s] = lru_cached[s] - gone
               \/ lru_cached'[s] = ShardLen(lru_shards'[s])

EvictionUpdatesCachedLength == [][EvictionStep]_vars

\* C20: with one caller, evict_many_fast(count, rng) returns at most
\* min(count, size before the call) + 1 entries.
FastEvictsAtMostOneExtra ==
    \A p \in Procs :
        (pc[p] = "done" /\ loc[p].op = "evict_many_fast") =>
            Len(loc[p].evicted) <= Min(loc[p].val, loc[p].size0) + 1

\* C21: with one caller, evict_many_fast(count, rng) returns at least
\* min(count, size before the call) - 1 entries, whatever the distribution of
\* the entries over the shards and whatever the shard order.
FastEvictsAllButOne ==
    \A p \in Procs :
        (pc[p] = "done" /\ loc[p].op = "evict_many_fast") =>
            Len(loc[p].evicted) >= Min(loc[p].val, loc[p].size0) - 1

\* Two tasks insert and evict concurrently under a fair scheduler: a task that
\* can take a step of evict, or whose wait for a shard lock can be served again
\* and again, takes it (tokio's RwLock queues its waiters).
EvictProgress(p) ==
    EvLoop(p) \/ EvPopNone(p) \/ EvPopLock(p) \/ EvCheck(p) \/ EvSingle(p) \/ EvTwo(p)

SpecRaceFair == SpecRace /\ \A p \in AllProcs : SF_vars(EvictProgress(p))

\* C22: evict always terminates: a call that has started returns, by the
\* predicate answering Once or None or by the size reaching zero.
EvictReturns ==
    \A p \in AllProcs : (pc[p] = "ev_loop") ~> (pc[p] = "done")

\* The consistency of an IndexedShard: as many indices as buckets; every slot
\* filed exactly once, under its bucket's hash; no index beyond the buckets;
\* no key stored twice.
ShardConsistent(sh) ==
    /\ Cardinality(sh.indices) = Len(sh.entries)
    /\ \A i \in 1 .. Len(sh.entries) :
          {x \in sh.indices : x.idx = i - 1} = {[hash |-> sh.entries[i].hash, idx |-> i - 1]}
    /\ \A x \in sh.indices : x.idx >= 0 /\ x.idx < Len(sh.entries)
    /\ \A i, j \in 1 .. Len(sh.entries) : sh.entries[i].key = sh.entries[j].key => i = j
    /\ \A i \in 1 .. Len(sh.entries) : sh.entries[i].hash = HashOf(sh.entries[i].key)

\* The step that drops the call of task p at a wait for a shard lock.
CancelStep(p) == pc[p] # "done" /\ pc'[p] = "done" /\ loc'[p].cancelled

\* A step in which the callback of a batch edits the entry it was given.
CallbackEdits == \E p \in Procs : pc[p] = "batch_item" /\ map_shards' # map_shards

CancelSteps ==
    /\ ~CallbackEdits =>
          map_size' - MapLen(map_shards') = map_size - MapLen(map_shards)
    /\ \A p \in Procs :
          CancelStep(p) =>
             /\ <<map_shards, map_size, lru_shards, lru_size, lru_cached>>'
                   = <<map_shards, map_size, lru_shards, lru_size, lru_cached>>
             /\ MapHeld(map_lock', p) = {} /\ LruHeld(lru_lock', p) = {}

CancelledCallNeverHappened ==
    \A p \in Procs :
        (pc[p] = "done" /\ loc[p].cancelled) =>
            /\ \A s \in Shards :
                  /\ MapRelation(map_shards[s]) = MapRelation(loc[p].pre.map_shards[s])
                  /\ LruRelation(lru_shards[s]) = LruRelation(loc[p].pre.lru_shards[s])
            /\ map_size = loc[p].pre.map_size
            /\ lru_size = loc[p].pre.lru_size

\* C25: after every operation on a shard of the cache (insert_full,
\* swap_remove_full, swap_remove_index_raw, retain, clear, the pop of the last
\* entry in evict, the drain in evict_many_fast) the shard is consistent: as
\* many indices as buckets, every slot filed exactly once under its bucket's
\* hash, no index dangling or filed twice, no key stored twice.
ShardsStayConsistent == \A s \in Shards : ShardConsistent(lru_shards[s])

\* evict_many_fast has taken key 1 out of the shard of the colliding keys and
\* left key 2 in slot 0.
FastEvictionLeftCollidingKey ==
    \E p \in Procs :
        /\ pc[p] = "done" /\ loc[p].op = "evict_many_fast"
        /\ Len(loc[p].evicted) = 1 /\ loc[p].evicted[1][1] = 1
        /\ Len(lru_shards[0].entries) = 1 /\ lru_shards[0].entries[1].key = 2

\* The last step of evict by task p presented the sole bucket of a population
\* of one.
LoneCandidate(p) == loc[p].sample # <<>> /\ loc[p].sample.n = 1

\* C26: in every step of evict the bucket presented to the predicate is one of
\* two distinct buckets sampled from the locked shards and is not newer than
\* the other, and it is the one removed when the predicate says so; the sole
\* bucket of a one-bucket population is presented without comparison only in
\* the single-shard case, when no shard of the snapshot is left to pair the
\* locked shard with.
CandidateIsOlderOfTwo ==
    \A p \in Procs :
        loc[p].sample # <<>> =>
            LET c == loc[p].sample
                other == IF c.cand = c.a THEN c.b ELSE c.a
            IN /\ c.cand \in {c.a, c.b}
               /\ Evicts(loc[p].ans) => Last(loc[p].evicted) = <<c.cand.key, c.cand.value>>
               /\ c.n >= 2 => (c.a.key # c.b.key /\ c.cand.ts <= other.ts)
               /\ c.n = 1 => (c.locked = 1 /\ c.left = 0)

\* The statement as made of the whole cache: a sole bucket is presented without
\* comparison only when the cache holds one entry.
LoneCandidateOnlyInCacheOfOne ==
    \A p \in Procs :
        LoneCandidate(p) =>
            lru_size + (IF Evicts(loc[p].ans) THEN 1 ELSE 0) = 1

\* A second step of evict has presented the older of two buckets of different
\* shards, stamped at different times, and removed it.
SecondStepTookOlderOfTwo ==
    \E p \in Procs :
        /\ loc[p].sample # <<>> /\ loc[p].sample.n >= 2
        /\ Len(loc[p].evicted) = 2
        /\ loc[p].sample.a.ts # loc[p].sample.b.ts
        /\ HashOf(loc[p].sample.a.key) # HashOf(loc[p].sample.b.key)

\* C27: eviction never samples from an empty shard nor indexes outside one:
\* evict_many_fast never reaches pick_indices with length 0 (it does not
\* panic), and the quota it sets out to take from a locked shard is at most
\* the shard's length.
FastEvictionStaysInsideShard ==
    \A p \in Procs :
        loc[p].op = "evict_many_fast" =>
            /\ pc[p] # "panic"
            /\ pc[p] = "emf_item" => loc[p].sub <= ShardLen(lru_shards[loc[p].cur])

\* C28: evict_many_fast takes the write lock of each shard at most once per
\* call and holds at most one shard lock at any moment, having released a
\* shard's lock before it waits for the next; called with count 0 or on an
\* empty cache it returns an empty list without taking any lock.
FastLocksEachShardOnce ==
    \A p \in Procs :
        loc[p].op = "evict_many_fast" =>
            /\ \A i, j \in 1 .. Len(loc[p].acq) : loc[p].acq[i] = loc[p].acq[j] => i = j
            /\ Cardinality(LruHeld(lru_lock, p)) <= 1
            /\ pc[p] = "emf_item" => LruHeld(lru_lock, p) = {Last(loc[p].acq)}
            /\ pc[p] # "emf_item" => LruHeld(lru_lock, p) = {}
            /\ (pc[p] = "done" /\ (loc[p].val = 0 \/ loc[p].size0 = 0)) =>
                   (loc[p].acq = <<>> /\ loc[p].evicted = <<>>)

\* evict_many_fast has returned after locking all three shards, one after the
\* other, and evicting from at least two of them.
FastVisitedThreeShards ==
    \E p \in Procs :
        /\ pc[p] = "done" /\ loc[p].op = "evict_many_fast"
        /\ Len(loc[p].acq) = 3
        /\ Cardinality({HashOf(loc[p].evicted[i][1]) % ShardCount
                           : i \in 1 .. Len(loc[p].evicted)}) >= 2

\* C29: the size invariant survives batch_write: when no call is in progress,
\* after batches whose callback filled vacant entries or removed occupied ones,
\* the map's size is the sum of its shard lengths, and no later remove takes
\* the size counter below zero.
BatchWriteKeepsSize ==
    /\ map_size >= 0
    /\ Quiescent => map_size = MapLen(map_shards)

\* C30: whenever a shard of the cache is not write-locked its cached length is
\* at least its actual length, whatever inserts, removes, clears, retains,
\* duplicates and evictions came before; so a shard that holds entries is in
\* every snapshot of the non-empty shards, and each shard of a duplicate
\* starts with a cached length that covers it.
CachedCoversLength ==
    /\ \A s \in Shards :
          lru_lock[s].w = 0 =>
             /\ lru_cached[s] >= ShardLen(lru_shards[s])
             /\ ShardLen(lru_shards[s]) > 0 => s \in Range(NonEmptyShards(lru_cached))
    /\ \A p \in Procs :
          \A i \in 1 .. Len(loc[p].dcached) : loc[p].dcached[i] >= ShardLen(loc[p].dup[i])

\* With every lock free, an eviction has left a shard one entry while its
\* cached length still reads two, and emptied another whose cached length
\* still reads one.
CachedLengthsGoneStale ==
    /\ \A s \in Shards : lru_lock[s] = FreeLock
    /\ lru_cached[0] = 2 /\ ShardLen(lru_shards[0]) = 1
    /\ lru_cached[1] = 1 /\ ShardLen(lru_shards[1]) = 0
    /\ \E p \in Procs : pc[p] = "done" /\ loc[p].op \in EvictOps \cup {"evict_many_fast"}

\* C31: the timestamp of an LruCache entry never decreases while the entry
\* stays in the cache, also when two gets of the same key run under shared
\* read locks and each reads the clock and stores the reading in two steps.
StampKeepsOrGrows ==
    \A k \in InKeys :
        (LruStored(lru_shards, k) # NoBucket /\ LruStored(lru_shards', k) # NoBucket) =>
            LruStored(lru_shards', k).ts >= LruStored(lru_shards, k).ts

TimestampNeverDecreases == [][StampKeepsOrGrows]_vars

\* C32: one evict call never waits for the write lock of a shard it holds:
\* the shards left in its shuffled snapshot are pairwise distinct and none of
\* them is held by the call, and the snapshot is refilled only when it is
\* empty and the call holds no guard.
EvictNeverRelocks ==
    \A p \in Procs :
        /\ pc[p] \in {"ev_loop", "ev_pop", "ev_check", "ev_single", "ev_two"} =>
              /\ \A i, j \in 1 .. Len(loc[p].ne) :
                    loc[p].ne[i] = loc[p].ne[j] => i = j
              /\ \A i \in 1 .. Len(loc[p].ne) :
                    loc[p].ne[i] \notin LruHeld(lru_lock, p)
        /\ pc[p] = "ev_loop" => (loc[p].ne = <<>> /\ LruHeld(lru_lock, p) = {})

\* An evict call that has evicted twice is on its walk through a refilled
\* snapshot (a round has at most as many steps as shards popped): it holds
\* shard_a and is about to pop the next shard of the snapshot.
EvictWalksRefilledSnapshot ==
    \E p \in Procs :
        /\ pc[p] = "ev_pop" /\ loc[p].op = "evict" /\ loc[p].slot = "B"
        /\ Len(loc[p].evicted) >= 2
        /\ LruHeld(lru_lock, p) = {loc[p].a}
        /\ loc[p].ne # <<>>
====
